---- MODULE Spec2Model ----
(***************************************************************************)
(* A model of the dataset-preparation backend: the DataPreprocessor of     *)
(* backend/preprocessing.py (the step pipeline, its step log and report),  *)
(* the pipeline run of backend/app.py that drives it, and the              *)
(* ModelComparator of backend/models.py (the before/after comparison),     *)
(* and the job table of backend/app.py with its background workers and     *)
(* status polls.                                                           *)
(*                                                                         *)
(* Data representation.  A DataFrame is a record                          *)
(*    [columns : sequence of column names,                                 *)
(*     dtype   : column name -> dtype name,                                *)
(*     rows    : sequence of rows, each a function column name -> cell].   *)
(* A cell is [k, v]: k = "nan" (NaN / None / NaT / <NA>), "num" (v is the  *)
(* number in thousandths, so 1.5 is 1500), "str" (v is the text as a       *)
(* sequence of one-character strings, so that it can be parsed, formatted  *)
(* and ordered), "bool" (v is TRUE or FALSE) or "ts" (a timestamp, v its   *)
(* number).                                                                *)
(***************************************************************************)
EXTENDS Integers, Sequences, FiniteSets, TLC

VARIABLES
    pre,        \* the DataPreprocessor object: heap, original_df, df, steps, report
    request,    \* the step list handed to the pipeline run (request.json 'steps')
    ip,         \* apply_preprocessing_steps: index of the next step of the loop
    pc,         \* position of the pipeline run
    job,        \* processing_jobs[job_id]: status, progress, result, error
    files,      \* the processed folder: file name -> the DataFrame written to it
    calls,      \* the DataPreprocessor operations run so far, in order
    cmp,        \* ModelComparator.compare_datasets: its inputs, locals and result
    profile,    \* the column profile a dataset-info request answers with
    returned,   \* the reports generate_report returned, as they were when returned
    processing_jobs, \* the server's job table: job id -> status, progress, result, error
    threads,    \* the background workers: job id -> position and locals
    polled      \* the latest response of get_job_status, if any

vars == <<pre, request, ip, pc, job, files, calls, cmp, profile, returned, processing_jobs, threads, polled>>

(***************************************************************************)
(* Cells                                                                   *)
(***************************************************************************)
NaN == [k |-> "nan", v |-> 0]
Num(n) == [k |-> "num", v |-> n]
IntCell(i) == [k |-> "num", v |-> 1000 * i]
Str(cs) == [k |-> "str", v |-> cs]
Bool(b) == [k |-> "bool", v |-> b]
Ts(n) == [k |-> "ts", v |-> n]

\* Series.isnull() on one cell
isnull(c) == c.k = "nan"

Abs(n) == IF n < 0 THEN 0 - n ELSE n

(***************************************************************************)
(* Text: str(), float(), and the ordering of strings                       *)
(***************************************************************************)
\* the characters of the model's texts, in code-point order
Alphabet == <<"-", ".", "0", "1", "2", "3", "4", "5", "6", "7", "8", "9", "<", ">", "A", "F", "N", "T", "_", "a", "e", "l", "n", "r", "s", "u", "x", "y", "z">>

Ord(c) == CHOOSE i \in 1..Len(Alphabet) : Alphabet[i] = c

DigitChars == <<"0", "1", "2", "3", "4", "5", "6", "7", "8", "9">>

IsDigit(c) == \E i \in 1..10 : DigitChars[i] = c

DigitValue(c) == (CHOOSE i \in 1..10 : DigitChars[i] = c) - 1

RECURSIVE Digits(_)
\* str(n) for an integer n >= 0
Digits(n) == IF n < 10 THEN <<DigitChars[n + 1]>> ELSE Append(Digits(n \div 10), DigitChars[(n % 10) + 1])

\* str(i) for a Python int, given in thousandths
FormatInt(v) == (IF v < 0 THEN <<"-">> ELSE <<>>) \o Digits(Abs(v) \div 1000)

\* the decimals of a float's repr: trailing zeros dropped, at least one digit kept
FracDigits(f) ==
    IF f % 100 = 0 THEN <<DigitChars[(f \div 100) + 1]>>
    ELSE IF f % 10 = 0 THEN <<DigitChars[(f \div 100) + 1], DigitChars[((f \div 10) % 10) + 1]>>
    ELSE <<DigitChars[(f \div 100) + 1], DigitChars[((f \div 10) % 10) + 1], DigitChars[(f % 10) + 1]>>

\* str(x) for a Python float, given in thousandths: 2000 is "2.0", -36125 is "-36.125"
FormatFloat(v) == (IF v < 0 THEN <<"-">> ELSE <<>>) \o Digits(Abs(v) \div 1000) \o <<".">> \o FracDigits(Abs(v) % 1000)

RECURSIVE Text(_)
\* a text as one TLA+ string (for column names and log messages)
Text(cs) == IF cs = <<>> THEN "" ELSE Head(cs) \o Text(Tail(cs))

RECURSIVE StrLess(_, _)
\* Python's s < t on strings: lexicographic by code point
StrLess(s, t) ==
    IF t = <<>> THEN FALSE
    ELSE IF s = <<>> THEN TRUE
    ELSE IF Head(s) = Head(t) THEN StrLess(Tail(s), Tail(t))
    ELSE Ord(Head(s)) < Ord(Head(t))

RECURSIVE DigitsValue(_, _)
\* the number a run of digits denotes, acc being the value of the digits read
DigitsValue(cs, acc) == IF cs = <<>> THEN acc ELSE DigitsValue(Tail(cs), 10 * acc + DigitValue(Head(cs)))

AllDigits(cs) == \A i \in 1..Len(cs) : IsDigit(cs[i])

\* the thousandths a run of decimals denotes (decimals after the third are cut)
FracValue(cs) ==
    LET d(i) == IF i <= Len(cs) THEN DigitValue(cs[i]) ELSE 0
    IN  100 * d(1) + 10 * d(2) + d(3)

\* pd.to_numeric(..., errors='coerce') on one text: the number it denotes, NaN for
\* "nan" and for a text that denotes no number
ParseNumeric(cs) ==
    LET neg == cs # <<>> /\ Head(cs) = "-"
        body == IF neg THEN Tail(cs) ELSE cs
        dots == {i \in 1..Len(body) : body[i] = "."}
        dot == IF dots = {} THEN Len(body) + 1 ELSE CHOOSE i \in dots : TRUE
        whole == SubSeq(body, 1, dot - 1)
        frac == SubSeq(body, dot + 1, Len(body))
        wellformed == /\ Cardinality(dots) <= 1
                      /\ AllDigits(whole) /\ AllDigits(frac)
                      /\ Len(whole) + Len(frac) > 0
        mag == 1000 * DigitsValue(whole, 0) + FracValue(frac)
    IN  IF wellformed THEN Num(IF neg THEN 0 - mag ELSE mag) ELSE NaN

(***************************************************************************)
(* DataFrames                                                              *)
(***************************************************************************)
Range(s) == {s[i] : i \in DOMAIN s}

\* df.shape
Shape(d) == <<Len(d.rows), Len(d.columns)>>

\* df[column] as the sequence of its cells, in row order
Column(d, column) == [i \in 1..Len(d.rows) |-> d.rows[i][column]]

\* Series.isnull().sum()
NullCount(s) == Cardinality({i \in DOMAIN s : isnull(s[i])})

\* Series.dropna()
dropna_series(s) == SelectSeq(s, LAMBDA c : ~isnull(c))

\* Series.nunique(): the number of distinct non-missing values
nunique(s) == Cardinality({c \in Range(s) : ~isnull(c)})

RECURSIVE TakeRows(_, _, _)
\* the rows whose position is in keep, in their order (boolean-mask selection)
TakeRows(rows, keep, i) ==
    IF i > Len(rows) THEN <<>>
    ELSE (IF i \in keep THEN <<rows[i]>> ELSE <<>>) \o TakeRows(rows, keep, i + 1)

\* df[mask]
SelectRows(d, keep) == [d EXCEPT !.rows = TakeRows(d.rows, keep, 1)]

\* df.drop(columns=cols)
DropColumns(d, cols) ==
    LET left == SelectSeq(d.columns, LAMBDA c : c \notin cols)
    IN  [columns |-> left,
         dtype |-> [c \in Range(left) |-> d.dtype[c]],
         rows |-> [i \in 1..Len(d.rows) |-> [c \in Range(left) |-> d.rows[i][c]]]]

\* df[column] = s (a series of dtype t): replaces the column where it stands,
\* or adds it as the last column
SetColumn(d, column, s, t) ==
    LET cols == IF column \in Range(d.columns) THEN d.columns ELSE Append(d.columns, column)
    IN  [columns |-> cols,
         dtype |-> [c \in Range(cols) |-> IF c = column THEN t ELSE d.dtype[c]],
         rows |-> [i \in 1..Len(d.rows) |-> [c \in Range(cols) |-> IF c = column THEN s[i] ELSE d.rows[i][c]]]]

\* dtype in ['int64', 'float64'] (the nullable 'Int64' does not compare equal to 'int64')
IsNumericDtype(t) == t \in {"int64", "float64"}

\* the order pandas sorts the values of one column by: numbers by value, texts as
\* strings (a column of the model holds one kind of value besides NaN)
CellLess(a, b) ==
    IF a.k = "str" /\ b.k = "str" THEN StrLess(a.v, b.v)
    ELSE IF a.k = "bool" /\ b.k = "bool" THEN (~a.v) /\ b.v
    ELSE IF a.k = b.k THEN a.v < b.v
    ELSE a.k = "num" /\ b.k = "str"

RECURSIVE SortSet(_)
\* the cells of a set in ascending order (np.unique, sorted)
SortSet(S) ==
    IF S = {} THEN <<>>
    ELSE LET m == CHOOSE x \in S : \A y \in S \ {x} : CellLess(x, y)
         IN  <<m>> \o SortSet(S \ {m})

RECURSIVE Insert(_, _)
Insert(sorted, x) ==
    IF sorted = <<>> THEN <<x>>
    ELSE IF x <= Head(sorted) THEN <<x>> \o sorted
    ELSE <<Head(sorted)>> \o Insert(Tail(sorted), x)

RECURSIVE SortNums(_)
\* a sequence of numbers in ascending order
SortNums(s) == IF s = <<>> THEN <<>> ELSE Insert(SortNums(Tail(s)), Head(s))

RECURSIVE Sum(_)
Sum(s) == IF s = <<>> THEN 0 ELSE Head(s) + Sum(Tail(s))

\* the non-missing numbers of a numeric series
Numbers(s) == LET present == dropna_series(s) IN [i \in 1..Len(present) |-> present[i].v]

\* Series.mean(): NaN when every value is missing
mean(s) == LET xs == Numbers(s) IN IF xs = <<>> THEN NaN ELSE Num(Sum(xs) \div Len(xs))

\* Series.median()
median(s) ==
    LET xs == SortNums(Numbers(s))
        n == Len(xs)
    IN  IF n = 0 THEN NaN
        ELSE IF n % 2 = 1 THEN Num(xs[(n + 1) \div 2])
        ELSE Num((xs[n \div 2] + xs[(n \div 2) + 1]) \div 2)

\* Series.quantile(q4 / 4), linear interpolation between the two nearest ranks
quantile(s, q4) ==
    LET xs == SortNums(Numbers(s))
        n == Len(xs)
        pos4 == (n - 1) * q4
        lo == (pos4 \div 4) + 1
        hi == IF lo < n THEN lo + 1 ELSE lo
    IN  IF n = 0 THEN NaN ELSE Num(xs[lo] + (((xs[hi] - xs[lo]) * (pos4 % 4)) \div 4))

\* Series.mode(): the most frequent non-missing values, ascending; empty when
\* every value is missing
mode(s) ==
    LET present == dropna_series(s)
        count(c) == Cardinality({i \in DOMAIN present : present[i] = c})
        top == {c \in Range(present) : \A o \in Range(present) : count(o) <= count(c)}
    IN  SortSet(top)

RECURSIVE ffill(_)
\* Series.ffill(): each missing cell takes the last valid value before it
ffill(s) ==
    IF s = <<>> THEN <<>>
    ELSE LET front == ffill(SubSeq(s, 1, Len(s) - 1))
             last == s[Len(s)]
         IN  IF isnull(last) /\ front # <<>> THEN Append(front, front[Len(front)]) ELSE Append(front, last)

RECURSIVE bfill(_)
\* Series.bfill(): each missing cell takes the first valid value after it
bfill(s) ==
    IF s = <<>> THEN <<>>
    ELSE LET back == bfill(Tail(s))
         IN  IF isnull(Head(s)) /\ back # <<>> THEN <<back[1]>> \o back ELSE <<Head(s)>> \o back

(***************************************************************************)
(* Conversions of one column (pandas)                                      *)
(***************************************************************************)
\* str(value) of one cell of a column of dtype t (Series.astype(str))
CellText(c, t) ==
    CASE c.k = "str" -> c.v
      [] c.k = "nan" -> IF t = "Int64" THEN <<"<", "N", "A", ">">>
                        ELSE IF t = "datetime64" THEN <<"N", "a", "T">>
                        ELSE <<"n", "a", "n">>
      [] c.k = "bool" -> IF c.v THEN <<"T", "r", "u", "e">> ELSE <<"F", "a", "l", "s", "e">>
      [] c.k = "ts" -> <<"T">> \o FormatInt(c.v)
      [] c.k = "num" -> IF t \in {"int64", "Int64"} \/ (t \notin {"float64"} /\ c.v % 1000 = 0)
                        THEN FormatInt(c.v) ELSE FormatFloat(c.v)

\* pd.to_numeric(series, errors='coerce'): the converted cells and their dtype.
\* A numeric or boolean series comes back as it is; texts are parsed, the ones
\* that denote no number become NaN; the result is float64 as soon as a value
\* is missing or has decimals, int64 otherwise.
to_numeric(s, t) ==
    LET conv(c) == CASE c.k = "str" -> ParseNumeric(c.v)
                     [] c.k = "bool" -> IF c.v THEN IntCell(1) ELSE IntCell(0)
                     [] c.k = "ts" -> Num(c.v)
                     [] OTHER -> c
        cells == [i \in DOMAIN s |-> conv(s[i])]
        floating == \E i \in DOMAIN s :
                        \/ isnull(cells[i])
                        \/ cells[i].v % 1000 # 0
                        \/ (s[i].k = "str" /\ "." \in Range(s[i].v))
    IN  IF t \in {"int64", "float64", "bool", "Int64"} THEN [cells |-> s, dtype |-> t]
        ELSE [cells |-> cells, dtype |-> IF floating THEN "float64" ELSE "int64"]

\* pd.to_datetime(series, errors='coerce'): numbers are offsets from the epoch; a
\* text is a date only if it does not read as a number below 1000
to_datetime(s) ==
    LET conv(c) == CASE c.k = "num" -> Ts(c.v)
                     [] c.k = "str" -> IF ParseNumeric(c.v).k = "num" /\ ParseNumeric(c.v).v >= 1000 * 1000
                                       THEN Ts(ParseNumeric(c.v).v) ELSE NaN
                     [] OTHER -> c
    IN  [i \in DOMAIN s |-> conv(s[i])]

\* Series.fillna(value) on a series of dtype t: [ok, cells, dtype]; ok is FALSE
\* when pandas raises (a nullable integer or categorical column cannot take a
\* value outside its domain)
fillna(s, t, value) ==
    LET cells == [i \in DOMAIN s |-> IF isnull(s[i]) /\ ~isnull(value) THEN value ELSE s[i]]
        fits == CASE t = "Int64" -> value.k = "num" /\ value.v % 1000 = 0
                  [] t = "category" -> value \in Range(s)
                  [] OTHER -> TRUE
        dtype == IF t \in {"int64", "float64", "datetime64"} /\ value.k = "str" THEN "object" ELSE t
    IN  IF isnull(value) THEN [ok |-> TRUE, cells |-> s, dtype |-> t]
        ELSE [ok |-> fits, cells |-> cells, dtype |-> dtype]

\* round(x, 2) of a float: to hundredths, a tie going to the even digit
round2(v) ==
    LET r == v % 10
        base == v - r
    IN  IF r < 5 THEN base
        ELSE IF r > 5 THEN base + 10
        ELSE IF (base \div 10) % 2 = 0 THEN base ELSE base + 10

(***************************************************************************)
(* DataPreprocessor (backend/preprocessing.py)                             *)
(*                                                                         *)
(* The object is the record pre.  DataFrames are objects: heap maps the    *)
(* three objects of a run -- "arg", the DataFrame handed to the            *)
(* constructor, and the two copies it makes -- to their values, and        *)
(* original_df and df name the object each attribute refers to.  A column  *)
(* assignment self.df[column] = ... changes the object df refers to; an    *)
(* assignment self.df = ... makes df refer to a new object.                *)
(***************************************************************************)
\* the result of a method: the object after it, and whether it raised
Return(P) == [self |-> P, raised |-> FALSE, error |-> ""]
Raise(P, message) == [self |-> P, raised |-> TRUE, error |-> message]

None == [k |-> "none", v |-> 0]

\* DataPreprocessor.__init__ without the two copies
InitShared(d) ==
    [heap |-> [o \in {"arg", "original", "working"} |-> d],
     original_df |-> "arg",
     df |-> "arg",
     steps |-> <<>>,
     steps_applied_is_steps |-> FALSE,
     report |-> [original_shape |-> Shape(d),
                 processed_shape |-> <<>>,
                 steps_applied |-> <<>>,
                 columns_removed |-> <<>>,
                 duplicates_removed |-> 0,
                 missing_values_filled |-> <<>>,
                 outliers_removed |-> <<>>,
                 encodings_applied |-> <<>>]]

\* DataPreprocessor.__init__(df): original_df and df are two copies of df
DataPreprocessor(d) ==
    [heap |-> [o \in {"arg", "original", "working"} |-> d],
     original_df |-> "original",
     df |-> "working",
     steps |-> <<>>,
     steps_applied_is_steps |-> FALSE,
     report |-> [original_shape |-> Shape(d),
                 processed_shape |-> <<>>,
                 steps_applied |-> <<>>,
                 columns_removed |-> <<>>,
                 duplicates_removed |-> 0,
                 missing_values_filled |-> <<>>,
                 outliers_removed |-> <<>>,
                 encodings_applied |-> <<>>]]

\* self.df and self.original_df, as values
Df(P) == P.heap[P.df]
OriginalDf(P) == P.heap[P.original_df]

\* self.df[column] = s: the object self.df refers to is changed in place
AssignColumn(P, column, s, t) == [P EXCEPT !.heap[P.df] = SetColumn(@, column, s, t)]

\* self.df = d: self.df refers to a new object, the old one is left as it was
Rebind(P, d) == [P EXCEPT !.heap["working"] = d, !.df = "working"]

\* self.steps.append(entry); report['steps_applied'] is the same list once
\* generate_report has assigned it
AppendStep(P, entry) ==
    [P EXCEPT !.steps = Append(@, entry),
              !.report.steps_applied = IF P.steps_applied_is_steps THEN Append(P.steps, entry) ELSE @]

\* generate_report(): fills in the shape and the step list and returns self.report
generate_report(P) ==
    [P EXCEPT !.report.processed_shape = Shape(Df(P)),
              !.report.steps_applied = P.steps,
              !.steps_applied_is_steps = TRUE]

\* round((missing / len) * 100, 2), in thousandths; 0 / 0 is NaN
MissingPercent(s) ==
    LET hundredths == (NullCount(s) * 10000) \div Len(s)
        rest == (NullCount(s) * 10000) % Len(s)
        up == 2 * rest > Len(s) \/ (2 * rest = Len(s) /\ hundredths % 2 = 1)
    IN  IF Len(s) = 0 THEN NaN ELSE Num(10 * (IF up THEN hundredths + 1 ELSE hundredths))

\* get_column_info(): for each column of the working frame its name, dtype,
\* missing count and percent, distinct count, first values and suggestions
get_column_info(P) ==
    LET d == Df(P)
        col_info(col) ==
            LET col_data == Column(d, col)
                missing_percent == MissingPercent(col_data)
                unique == nunique(col_data)
                present == dropna_series(col_data)
                first == IF ~isnull(missing_percent) /\ missing_percent.v > 50000 THEN <<"drop_column">>
                         ELSE IF ~isnull(missing_percent) /\ missing_percent.v > 0 THEN <<"fill_missing">>
                         ELSE <<>>
                encode == IF d.dtype[col] = "object" /\ unique < 20 THEN <<"label_encode", "onehot_encode">> ELSE <<>>
                numeric == IF d.dtype[col] \in {"int64", "float64"}
                           THEN <<"remove_outliers">> \o (IF unique < 10 THEN <<"convert_to_categorical">> ELSE <<>>)
                           ELSE <<>>
            IN  [name |-> col,
                 type |-> d.dtype[col],
                 missing |-> NullCount(col_data),
                 missing_percent |-> missing_percent,
                 unique |-> unique,
                 sample_values |-> IF unique > 0 THEN SubSeq(present, 1, IF Len(present) < 5 THEN Len(present) ELSE 5) ELSE <<>>,
                 suggested_actions |-> first \o encode \o numeric]
    IN  [k \in 1..Len(d.columns) |-> col_info(d.columns[k])]

\* drop_high_missing_columns without the step log entry
DropHighSilently(P, threshold) ==
    LET d == Df(P)
        n == Len(d.rows)
        cols_to_drop == SelectSeq(d.columns, LAMBDA c : n > 0 /\ 1000 * NullCount(Column(d, c)) > threshold * n)
    IN  IF cols_to_drop # <<>>
        THEN Return([Rebind(P, DropColumns(d, Range(cols_to_drop)))
                        EXCEPT !.report.columns_removed = @ \o cols_to_drop])
        ELSE Return(P)

\* drop_high_missing_columns(threshold): threshold in thousandths (0.5 is 500);
\* a column goes when missing / len(df) > threshold (0 / 0 is NaN, never greater)
drop_high_missing_columns(P, threshold) ==
    LET d == Df(P)
        n == Len(d.rows)
        cols_to_drop == SelectSeq(d.columns, LAMBDA c : n > 0 /\ 1000 * NullCount(Column(d, c)) > threshold * n)
        entry == [step |-> "drop_high_missing",
                  details |-> "Dropped " \o ToString(Len(cols_to_drop)) \o " columns with >"
                              \o Text(FormatFloat(threshold * 100)) \o "% missing values",
                  columns |-> cols_to_drop]
    IN  IF cols_to_drop # <<>>
        THEN Return([AppendStep(Rebind(P, DropColumns(d, Range(cols_to_drop))), entry)
                        EXCEPT !.report.columns_removed = @ \o cols_to_drop])
        ELSE Return(P)

\* df.duplicated(): the rows equal, in every column, to an earlier row (two
\* missing cells are equal); none when the frame has no column
duplicated(d) ==
    IF d.columns = <<>> THEN {}
    ELSE {i \in 1..Len(d.rows) : \E j \in 1..(i - 1) : d.rows[j] = d.rows[i]}

\* remove_duplicates that replaces the step log by its own entry
RemoveDuplicatesResetLog(P) ==
    LET d == Df(P)
        dup == duplicated(d)
        entry == [step |-> "remove_duplicates",
                  details |-> "Removed " \o ToString(Cardinality(dup)) \o " duplicate rows"]
    IN  IF Cardinality(dup) > 0
        THEN Return([Rebind(P, SelectRows(d, (1..Len(d.rows)) \ dup))
                        EXCEPT !.steps = <<entry>>, !.report.duplicates_removed = Cardinality(dup)])
        ELSE Return(P)

\* remove_duplicates without the `if duplicates_count > 0` guard
RemoveDuplicatesUnguarded(P) ==
    LET d == Df(P)
        dup == duplicated(d)
        duplicates_count == Cardinality(dup)
        entry == [step |-> "remove_duplicates",
                  details |-> "Removed " \o ToString(duplicates_count) \o " duplicate rows"]
    IN  Return([AppendStep(Rebind(P, SelectRows(d, (1..Len(d.rows)) \ dup)), entry)
                   EXCEPT !.report.duplicates_removed = duplicates_count])

\* remove_duplicates(): keeps the first of each group of equal rows
remove_duplicates(P) ==
    LET d == Df(P)
        dup == duplicated(d)
        duplicates_count == Cardinality(dup)
        entry == [step |-> "remove_duplicates",
                  details |-> "Removed " \o ToString(duplicates_count) \o " duplicate rows"]
    IN  IF duplicates_count > 0
        THEN Return([AppendStep(Rebind(P, SelectRows(d, (1..Len(d.rows)) \ dup)), entry)
                        EXCEPT !.report.duplicates_removed = duplicates_count])
        ELSE Return(P)

\* the converted column of change_data_type: [ok, cells, dtype]; ok is FALSE
\* when the conversion raises.  A new_type that is none of the six names
\* converts nothing.
ConvertColumn(s, t, new_type) ==
    LET num == to_numeric(s, t)
        integral == \A i \in DOMAIN s : isnull(num.cells[i]) \/ num.cells[i].k # "num" \/ num.cells[i].v % 1000 = 0
        as_number(c) == IF c.k = "bool" THEN (IF c.v THEN IntCell(1) ELSE IntCell(0)) ELSE c
    IN  CASE new_type = "numeric" -> [ok |-> TRUE, cells |-> num.cells, dtype |-> num.dtype]
          [] new_type = "integer" -> [ok |-> integral, cells |-> [i \in DOMAIN s |-> as_number(num.cells[i])], dtype |-> "Int64"]
          [] new_type = "float" -> [ok |-> TRUE, cells |-> [i \in DOMAIN s |-> as_number(num.cells[i])], dtype |-> "float64"]
          [] new_type = "datetime" -> [ok |-> t # "bool", cells |-> to_datetime(s), dtype |-> "datetime64"]
          [] new_type = "string" -> [ok |-> TRUE, cells |-> [i \in DOMAIN s |-> Str(CellText(s[i], t))], dtype |-> "object"]
          [] new_type = "category" -> [ok |-> TRUE, cells |-> s, dtype |-> "category"]
          [] OTHER -> [ok |-> TRUE, cells |-> s, dtype |-> t]

\* change_data_type that appends its log entry before it converts
ChangeDataTypeLogFirst(P, column, new_type) ==
    LET d == Df(P)
        conv == ConvertColumn(Column(d, column), d.dtype[column], new_type)
        entry == [step |-> "change_data_type",
                  details |-> "Changed " \o column \o " to " \o new_type,
                  column |-> column,
                  new_type |-> new_type]
    IN  IF column \notin Range(d.columns) THEN Raise(P, "Column '" \o column \o "' not found")
        ELSE IF ~conv.ok THEN Raise(AppendStep(P, entry), "Failed to convert " \o column \o " to " \o new_type)
        ELSE Return(AppendStep(AssignColumn(P, column, conv.cells, conv.dtype), entry))

\* change_data_type(column, new_type)
change_data_type(P, column, new_type) ==
    LET d == Df(P)
        conv == ConvertColumn(Column(d, column), d.dtype[column], new_type)
        entry == [step |-> "change_data_type",
                  details |-> "Changed " \o column \o " to " \o new_type,
                  column |-> column,
                  new_type |-> new_type]
    IN  IF column \notin Range(d.columns) THEN Raise(P, "Column '" \o column \o "' not found")
        ELSE IF ~conv.ok THEN Raise(P, "Failed to convert " \o column \o " to " \o new_type)
        ELSE Return(AppendStep(AssignColumn(P, column, conv.cells, conv.dtype), entry))

\* the fill of fill_missing_values: [value, cells, shown] -- value is the fill
\* value (None for forward_fill and backward_fill and for a mode of nothing),
\* cells the column after the ffill / bfill branch, shown is str(fill_value)
FillChoice(s, t, method, custom_value) ==
    CASE method = "mean" /\ IsNumericDtype(t) ->
            [value |-> mean(s), cells |-> s, shown |-> Text(CellText(mean(s), "float64"))]
      [] method = "median" /\ IsNumericDtype(t) ->
            [value |-> median(s), cells |-> s, shown |-> Text(CellText(median(s), "float64"))]
      [] method = "mode" ->
            IF mode(s) # <<>> THEN [value |-> mode(s)[1], cells |-> s, shown |-> Text(CellText(mode(s)[1], t))]
            ELSE [value |-> None, cells |-> s, shown |-> "N/A"]
      [] method = "custom" /\ custom_value # None ->
            [value |-> custom_value, cells |-> s, shown |-> Text(CellText(custom_value, "object"))]
      [] method = "forward_fill" -> [value |-> None, cells |-> ffill(s), shown |-> "N/A"]
      [] method = "backward_fill" -> [value |-> None, cells |-> bfill(s), shown |-> "N/A"]
      [] OTHER ->
            IF IsNumericDtype(t) THEN [value |-> IntCell(0), cells |-> s, shown |-> "0"]
            ELSE [value |-> Str(<<>>), cells |-> s, shown |-> ""]

\* fill_missing_values(column, method, custom_value)
fill_missing_values(P, column, method, custom_value) ==
    LET d == Df(P)
        s == Column(d, column)
        t == d.dtype[column]
        missing_count == NullCount(s)
        choice == FillChoice(s, t, method, custom_value)
        fill_value == choice.value
        filled == IF fill_value # None THEN fillna(choice.cells, t, fill_value)
                  ELSE [ok |-> TRUE, cells |-> choice.cells, dtype |-> t]
        entry == [step |-> "fill_missing",
                  details |-> "Filled " \o ToString(missing_count) \o " missing values in " \o column \o " with " \o method,
                  column |-> column,
                  method |-> method,
                  missing_count |-> missing_count,
                  fill_value |-> choice.shown]
        filled_entry == [method |-> method, count |-> missing_count, value |-> choice.shown]
        before == IF column \in DOMAIN P.report.missing_values_filled
                  THEN P.report.missing_values_filled[column] ELSE <<>>
    IN  IF column \notin Range(d.columns) THEN Raise(P, "Column '" \o column \o "' not found")
        ELSE IF missing_count = 0 THEN Return(P)
        ELSE IF ~filled.ok THEN Raise(P, "fillna: invalid fill value for dtype " \o t)
        ELSE Return([AppendStep(AssignColumn(P, column, filled.cells, filled.dtype), entry)
                        EXCEPT !.report.missing_values_filled = (column :> Append(before, filled_entry)) @@ @])

\* remove_outliers(column, method='iqr'): the rows kept are those whose value
\* lies within [Q1 - 1.5 IQR, Q3 + 1.5 IQR]; a comparison with NaN is false
remove_outliers(P, column) ==
    LET d == Df(P)
        s == Column(d, column)
        Q1 == quantile(s, 1)
        Q3 == quantile(s, 3)
        IQR == Q3.v - Q1.v
        lower_bound == Q1.v - ((3 * IQR) \div 2)
        upper_bound == Q3.v + ((3 * IQR) \div 2)
        known == ~isnull(Q1)
        outliers == {i \in DOMAIN s : known /\ ~isnull(s[i]) /\ (s[i].v < lower_bound \/ s[i].v > upper_bound)}
        outlier_count == Cardinality(outliers)
        kept == {i \in DOMAIN s : known /\ ~isnull(s[i]) /\ s[i].v >= lower_bound /\ s[i].v <= upper_bound}
        removed == Len(d.rows) - Cardinality(kept)
        entry == [step |-> "remove_outliers",
                  details |-> "Removed " \o ToString(removed) \o " outliers from " \o column \o " using IQR method",
                  column |-> column,
                  method |-> "iqr",
                  removed_count |-> removed,
                  lower_bound |-> round2(lower_bound),
                  upper_bound |-> round2(upper_bound)]
    IN  IF column \notin Range(d.columns) \/ ~IsNumericDtype(d.dtype[column]) THEN Return(P)
        ELSE IF outlier_count > 0
        THEN Return([AppendStep(Rebind(P, SelectRows(d, kept)), entry)
                        EXCEPT !.report.outliers_removed = (column :> removed) @@ @])
        ELSE Return(P)

\* LabelEncoder().fit_transform(series.astype(str)): classes_ are the distinct
\* texts in ascending order, each cell becomes the rank of its text
LabelEncode(s, t) ==
    LET texts == [i \in DOMAIN s |-> Str(CellText(s[i], t))]
        classes == SortSet(Range(texts))
        code(c) == (CHOOSE k \in 1..Len(classes) : classes[k] = c) - 1
    IN  [cells |-> [i \in DOMAIN s |-> IntCell(code(texts[i]))],
         classes |-> [k \in 1..Len(classes) |-> Text(classes[k].v)]]

\* pd.get_dummies(series, prefix=column, dummy_na=True): one boolean column per
\* distinct value, in ascending order, then one for the missing cells
get_dummies(s, t, column) ==
    LET values == SortSet({c \in Range(s) : ~isnull(c)})
        names == [k \in 1..Len(values) |-> column \o "_" \o Text(CellText(values[k], t))] \o <<column \o "_nan">>
        cells(k) == IF k <= Len(values) THEN [i \in DOMAIN s |-> Bool(s[i] = values[k])]
                    ELSE [i \in DOMAIN s |-> Bool(isnull(s[i]))]
    IN  [columns |-> names, cells |-> [k \in 1..Len(names) |-> cells(k)]]

RECURSIVE Concat(_, _, _)
\* pd.concat([d, dummies], axis=1): the dummy columns follow the columns of d
Concat(d, dummies, k) ==
    IF k > Len(dummies.columns) THEN d
    ELSE Concat(SetColumn(d, dummies.columns[k], dummies.cells[k], "bool"), dummies, k + 1)

\* encode_categorical(column, method)
encode_categorical(P, column, method) ==
    LET d == Df(P)
        s == Column(d, column)
        t == d.dtype[column]
        label == LabelEncode(s, t)
        dummies == get_dummies(s, t, column)
        encoding_type == IF method = "label" THEN "Label Encoding" ELSE "One-Hot Encoding"
        mapping == IF method = "label"
                   THEN [k \in 1..Len(label.classes) |-> <<label.classes[k], k - 1>>]
                   ELSE [k \in 1..Len(dummies.columns) |-> column \o "_" \o dummies.columns[k]]
        Q == IF method = "label" THEN AssignColumn(P, column, label.cells, "int64")
             ELSE Rebind(P, Concat(DropColumns(d, {column}), dummies, 1))
        entry == [step |-> "encode_categorical",
                  details |-> "Applied " \o encoding_type \o " to " \o column,
                  column |-> column,
                  method |-> method,
                  encoding_type |-> encoding_type]
    IN  IF column \notin Range(d.columns) \/ d.dtype[column] # "object"
        THEN Raise(P, "Column '" \o column \o "' is not categorical")
        ELSE IF method \notin {"label", "onehot"}
        THEN Raise(P, "local variable 'encoding_type' referenced before assignment")
        ELSE Return([AppendStep(Q, entry)
                        EXCEPT !.report.encodings_applied =
                                   (column :> [method |-> method, type |-> encoding_type, mapping |-> mapping]) @@ @])

\* the drop_column branch of apply_preprocessing_steps, dropping without a log entry
DropColumnSilently(P, column) ==
    LET d == Df(P)
    IN  IF column \in Range(d.columns) THEN Return(Rebind(P, DropColumns(d, {column}))) ELSE Return(P)

\* the drop_column branch of apply_preprocessing_steps
drop_column(P, column) ==
    LET d == Df(P)
        entry == [step |-> "drop_column", details |-> "Dropped column: " \o column, column |-> column]
    IN  IF column \in Range(d.columns)
        THEN Return(AppendStep(Rebind(P, DropColumns(d, {column})), entry))
        ELSE Return(P)

(***************************************************************************)
(* ModelComparator (backend/models.py)                                     *)
(*                                                                         *)
(* What scikit-learn computes is not modelled: a fit says, for one         *)
(* evaluation, which models of the battery raise, what the others score,   *)
(* and whether the K-Means pass yields a silhouette score.  A score is     *)
(* [k |-> "num", v] with v in ten-thousandths (round(score, 4)).           *)
(***************************************************************************)
\* the least number of complete rows prepare_data accepts
MinRowsPrepare == 10

\* the least number of rows evaluate_models accepts
MinRowsEvaluate == 20

\* df.copy().dropna(): the rows without a missing cell
dropna(d) == SelectRows(d, {i \in 1..Len(d.rows) : \A c \in Range(d.columns) : ~isnull(d.rows[i][c])})

\* the target prepare_data settles on: the one asked for when the frame has it
\* (target is <<>> for None, <<name>> otherwise), else the first column with 2
\* to 20 distinct values, else the last column
ResolveTarget(d, target) ==
    LET potential_targets == SelectSeq(d.columns, LAMBDA c : nunique(Column(d, c)) >= 2 /\ nunique(Column(d, c)) <= 20)
    IN  IF target # <<>> /\ target[1] \in Range(d.columns) THEN target[1]
        ELSE IF potential_targets # <<>> THEN potential_targets[1]
        ELSE d.columns[Len(d.columns)]

RECURSIVE EncodeFeatures(_, _)
\* every object column of X is label-encoded
EncodeFeatures(d, k) ==
    IF k > Len(d.columns) THEN d
    ELSE LET c == d.columns[k]
         IN  IF d.dtype[c] = "object"
             THEN EncodeFeatures(SetColumn(d, c, LabelEncode(Column(d, c), "object").cells, "int64"), k + 1)
             ELSE EncodeFeatures(d, k + 1)

\* prepare_data(df, target_column): [raised, error] or [X, y, problem_type,
\* target_column].  No cell is missing after dropna, so the fillna changes
\* nothing; the standardised values of X are not computed (see above).
prepare_data(df, target) ==
    LET d == dropna(df)
        target_column == ResolveTarget(d, target)
        y == Column(d, target_column)
        classification == d.dtype[target_column] = "object" \/ nunique(y) < 10
    IN  IF Len(d.rows) < MinRowsPrepare THEN [raised |-> TRUE, error |-> "Dataset too small after cleaning"]
        ELSE IF d.columns = <<>> THEN [raised |-> TRUE, error |-> "index -1 is out of bounds for axis 0 with size 0"]
        ELSE [raised |-> FALSE,
              X |-> EncodeFeatures(DropColumns(d, {target_column}), 1),
              y |-> IF classification THEN LabelEncode(y, d.dtype[target_column]).cells ELSE y,
              problem_type |-> IF classification THEN "classification" ELSE "regression",
              target_column |-> target_column]

Score(n) == [k |-> "num", v |-> n]
ErrorScore == [k |-> "text", v |-> "Error"]

\* the models evaluate_models trains, in order
Battery(problem_type) ==
    IF problem_type = "classification"
    THEN <<"Logistic Regression", "Random Forest", "Decision Tree", "SVM">>
    ELSE <<"Linear Regression", "Random Forest", "Decision Tree", "SVM">>

\* the result of the k-th model of the battery under a fit; no model can be
\* fitted to a frame without feature columns
ModelResult(k, X, problem_type, fit) ==
    LET name == Battery(problem_type)[k]
    IN  IF k \in fit.failed \/ X.columns = <<>>
        THEN [model |-> name, score |-> ErrorScore, metric |-> "ValueError", status |-> "error"]
        ELSE IF problem_type = "classification"
        THEN [model |-> name, score |-> Score(fit.score[k]), metric |-> "Accuracy", status |-> "success"]
        ELSE [model |-> name, score |-> Score(fit.score[k]), metric |-> "R2 Score", status |-> "success",
              mse |-> Score(fit.mse), mae |-> Score(fit.mae)]

\* evaluate_models that trains on a frame of any length
EvaluateModelsUnguarded(X, y, problem_type, fit) ==
    LET battery == [k \in 1..Len(Battery(problem_type)) |-> ModelResult(k, X, problem_type, fit)]
    IN  [raised |-> FALSE, results |-> battery]

\* evaluate_models that stops at the first model that raises
EvaluateModelsAbort(X, y, problem_type, fit) ==
    LET battery == [k \in 1..Len(Battery(problem_type)) |-> ModelResult(k, X, problem_type, fit)]
        bad == {k \in DOMAIN battery : battery[k].status = "error"}
        first == IF bad = {} THEN Len(battery) + 1 ELSE CHOOSE k \in bad : \A j \in bad : k <= j
    IN  IF Len(X.rows) < MinRowsEvaluate THEN [raised |-> TRUE, error |-> "Not enough data for model evaluation"]
        ELSE [raised |-> FALSE, results |-> SubSeq(battery, 1, first - 1)]

\* evaluate_models(X, y, problem_type): [raised, error] or [results]
evaluate_models(X, y, problem_type, fit) ==
    LET battery == [k \in 1..Len(Battery(problem_type)) |-> ModelResult(k, X, problem_type, fit)]
        distinct == Cardinality(Range(y))
        n_clusters == IF distinct < 10 THEN distinct ELSE 10
        kmeans == [model |-> "K-Means", score |-> Score(fit.silhouette), metric |-> "Silhouette Score",
                   status |-> "success", n_clusters |-> n_clusters]
    IN  IF Len(X.rows) < MinRowsEvaluate THEN [raised |-> TRUE, error |-> "Not enough data for model evaluation"]
        ELSE [raised |-> FALSE,
              results |-> IF n_clusters > 1 /\ X.columns # <<>> /\ fit.kmeans THEN Append(battery, kmeans) ELSE battery]

\* next((r for r in results if r['model'] == name and r['status'] == 'success'), None),
\* as a sequence: empty for None
FirstSuccess(results, name) ==
    LET hits == SelectSeq(results, LAMBDA r : r.model = name /\ r.status = "success")
    IN  IF hits = <<>> THEN <<>> ELSE <<hits[1]>>

\* the comparison table with a row for every model that succeeded on a side
ComparisonEitherSide(original_results, processed_results) ==
    LET names(results) == {results[k].model : k \in {j \in DOMAIN results : results[j].status = "success"}}
        model_names == names(original_results) \cup names(processed_results)
        row(name) ==
            LET o == FirstSuccess(original_results, name)
                p == FirstSuccess(processed_results, name)
                both == o # <<>> /\ p # <<>>
            IN  [model |-> name,
                 original |-> IF o # <<>> THEN o[1].score ELSE ErrorScore,
                 processed |-> IF p # <<>> THEN p[1].score ELSE ErrorScore,
                 improvement |-> IF both THEN Score(p[1].score.v - o[1].score.v) ELSE [k |-> "text", v |-> "N/A"],
                 metric |-> IF o # <<>> THEN o[1].metric ELSE p[1].metric,
                 status |-> "success"]
    IN  {row(name) : name \in model_names}

\* the comparison table of compare_datasets: the names that succeeded on either
\* side are looked up on both, and a row is made where both lookups find a
\* result.  The rows are appended in the iteration order of a Python set, which
\* is not specified: the table is kept as the set of its rows.
Comparison(original_results, processed_results) ==
    LET names(results) == {results[k].model : k \in {j \in DOMAIN results : results[j].status = "success"}}
        model_names == names(original_results) \cup names(processed_results)
        row(name) ==
            LET o == FirstSuccess(original_results, name)[1]
                p == FirstSuccess(processed_results, name)[1]
            IN  [model |-> name,
                 original |-> o.score,
                 processed |-> p.score,
                 improvement |-> Score(p.score.v - o.score.v),
                 metric |-> o.metric,
                 status |-> "success"]
    IN  {row(name) : name \in {m \in model_names : FirstSuccess(original_results, m) # <<>>
                                                    /\ FirstSuccess(processed_results, m) # <<>>}}

\* compare_datasets whose exception reaches the caller
Escapes(original_df, processed_df, target_column, e, at) ==
    [phase |-> "raised", original_df |-> original_df, processed_df |-> processed_df,
     target_column |-> target_column, failed_at |-> at, error |-> e]

\* `except Exception as e` of compare_datasets: the error result returned when
\* the step named by `at` raised e
Except(original_df, processed_df, target_column, e, at) ==
    [phase |-> "returned", original_df |-> original_df, processed_df |-> processed_df,
     target_column |-> target_column, failed_at |-> at,
     result |-> [comparison |-> {},
                 problem_type |-> "unknown",
                 target_column |-> IF target_column # <<>> THEN target_column[1] ELSE "unknown",
                 error |-> e,
                 status |-> "error"]]

\* compare_datasets(original_df, processed_df, target_column) under the fits of
\* its two evaluations: the locals it went through and the result it returns
compare_datasets(original_df, processed_df, target_column, fit_orig, fit_proc) ==
    LET orig == prepare_data(original_df, target_column)
        original == evaluate_models(orig.X, orig.y, orig.problem_type, fit_orig)
        proc == prepare_data(processed_df, <<orig.target_column>>)
        processed == evaluate_models(proc.X, proc.y, proc.problem_type, fit_proc)
        failure(e, at) == Except(original_df, processed_df, target_column, e, at)
    IN  IF orig.raised THEN failure(orig.error, "prepare original")
        ELSE IF original.raised THEN failure(original.error, "evaluate original")
        ELSE IF proc.raised THEN failure(proc.error, "prepare processed")
        ELSE IF processed.raised THEN failure(processed.error, "evaluate processed")
        ELSE [phase |-> "returned", original_df |-> original_df, processed_df |-> processed_df,
              target_column |-> target_column, failed_at |-> "",
              target_col |-> orig.target_column,
              processed_target |-> proc.target_column,
              problem_type_orig |-> orig.problem_type,
              problem_type_proc |-> proc.problem_type,
              original_results |-> original.results,
              processed_results |-> processed.results,
              result |-> [comparison |-> Comparison(original.results, processed.results),
                          problem_type |-> orig.problem_type,
                          target_column |-> orig.target_column,
                          original_data_shape |-> Shape(original_df),
                          processed_data_shape |-> Shape(processed_df),
                          status |-> "success"]]

(***************************************************************************)
(* The inputs of the pipeline run: datasets and step lists                 *)
(***************************************************************************)
\* the longest step list a request carries
MaxSteps == 2

X == Str(<<"x">>)
Y == Str(<<"y">>)
Z == Str(<<"z">>)
Seven == Str(<<"7">>)

\* a frame of a numeric column "a" and a text column "b" (read_csv gives a
\* numeric column with a missing value the dtype float64, int64 otherwise)
Frame(as, bs) ==
    [columns |-> <<"a", "b">>,
     dtype |-> [c \in {"a", "b"} |-> IF c = "b" THEN "object"
                                     ELSE IF \E i \in DOMAIN as : isnull(as[i]) THEN "float64" ELSE "int64"],
     rows |-> [i \in 1..Len(as) |-> [c \in {"a", "b"} |-> IF c = "a" THEN as[i] ELSE bs[i]]]]

\* the same frame with the text column "b" ahead of the numeric column "a"
TextFirst(as, bs) == [Frame(as, bs) EXCEPT !.columns = <<"b", "a">>]

\* the uploaded datasets: clean; duplicate rows; a column more than half
\* missing; duplicates whose removal makes a column more than half missing; an
\* outlier; an outlier beside a missing value; a column with no value at all;
\* gaps at both ends and texts that read as numbers; no row at all; the
\* values 1 to 5 and 100; the values 1 and 3 with two gaps; the text column
\* first
Datasets ==
    { Frame(<<IntCell(1), IntCell(2), IntCell(3)>>, <<X, Y, X>>),
      Frame(<<IntCell(1), IntCell(1), IntCell(2)>>, <<X, X, Y>>),
      Frame(<<NaN, NaN, IntCell(1)>>, <<X, Y, Y>>),
      Frame(<<NaN, NaN, IntCell(1), IntCell(1)>>, <<X, Y, Z, Z>>),
      Frame(<<IntCell(1), IntCell(1), IntCell(1), IntCell(100)>>, <<X, Y, Seven, NaN>>),
      Frame(<<IntCell(1), IntCell(1), IntCell(1), IntCell(1), IntCell(100), NaN>>, <<X, Y, Z, Seven, X, Y>>),
      Frame(<<NaN, NaN>>, <<X, Y>>),
      Frame(<<NaN, IntCell(1), IntCell(2), NaN>>, <<Seven, NaN, Seven, Seven>>),
      Frame(<<>>, <<>>),
      Frame(<<IntCell(1), IntCell(2), IntCell(3), IntCell(4), IntCell(5), IntCell(100)>>, <<X, Y, Z, X, Y, Z>>),
      Frame(<<IntCell(1), NaN, IntCell(3), NaN>>, <<X, Y, Z, X>>),
      TextFirst(<<IntCell(1), IntCell(2), IntCell(3)>>, <<X, Y, NaN>>) }

ChangeType(column, new_type) == [action |-> "change_type", column |-> column, method |-> new_type, value |-> None]
FillMissing(column, method, value) == [action |-> "fill_missing", column |-> column, method |-> method, value |-> value]
Encode(column, method) == [action |-> "encode", column |-> column, method |-> method, value |-> None]
RemoveOutliers(column) == [action |-> "remove_outliers", column |-> column, method |-> "iqr", value |-> None]
DropColumn(column) == [action |-> "drop_column", column |-> column, method |-> "", value |-> None]

\* the steps a request draws from; "z" is a column no dataset has
StepMenu ==
    { ChangeType("a", "numeric"), ChangeType("a", "integer"), ChangeType("b", "numeric"),
      ChangeType("b", "string"), ChangeType("z", "float"),
      ChangeType("b", "category"), ChangeType("a", "datetime"),
      FillMissing("a", "mean", None), FillMissing("a", "forward_fill", None),
      FillMissing("a", "median", None), FillMissing("a", "backward_fill", None),
      FillMissing("b", "mode", None), FillMissing("b", "custom", X), FillMissing("a", "custom", None),
      Encode("b", "label"), Encode("b", "onehot"), Encode("a", "label"),
      RemoveOutliers("a"), RemoveOutliers("b"),
      DropColumn("a"), DropColumn("z") }

RECURSIVE StepLists(_)
\* the step lists of at most n steps
StepLists(n) ==
    IF n = 0 THEN {<<>>}
    ELSE LET shorter == StepLists(n - 1)
         IN  shorter \cup {Append(l, st) : l \in {x \in shorter : Len(x) = n - 1}, st \in StepMenu}

(***************************************************************************)
(* The pipeline run (backend/app.py, _process_dataset_background, and      *)
(* DataPreprocessor.apply_preprocessing_steps)                              *)
(***************************************************************************)
\* get_column_info has not been asked for
NotProfiled == [phase |-> "idle"]

\* compare_datasets has not been called
NotCompared == [phase |-> "idle"]

\* The worker of a job has read the uploaded dataset and constructed the
\* DataPreprocessor; the job holds the step list of the request.
Init ==
    /\ \E d \in Datasets : pre = DataPreprocessor(d)
    /\ request \in StepLists(MaxSteps)
    /\ ip = 1
    /\ pc = "constructed"
    /\ job = [status |-> "processing", progress |-> 30, result |-> <<>>, error |-> <<>>]
    /\ files = <<>>
    /\ calls = <<>>
    /\ cmp = NotCompared
    /\ profile = NotProfiled
    /\ returned = <<>>
    /\ processing_jobs = <<>>
    /\ threads = <<>>
    /\ polled = <<>>

\* one operation of the DataPreprocessor ran, with result r; the call is noted
\* with whether it raised, whether it changed the working frame, and by how
\* many entries the step log grew
Ran(op, r) ==
    /\ pre' = r.self
    /\ calls' = Append(calls, [op |-> op, raised |-> r.raised, effect |-> Df(r.self) # Df(pre),
                                logged |-> Len(r.self.steps) - Len(pre.steps)])
    /\ job' = IF r.raised THEN [job EXCEPT !.error = <<r.error>>] ELSE job

\* `if steps: preprocessor.apply_preprocessing_steps(steps)`: the call is made
\* only for a list that is not empty
if_steps ==
    /\ pc = "constructed"
    /\ pc' = IF request # <<>> THEN "loop" ELSE "applied"
    /\ UNCHANGED <<pre, request, ip, job, files, calls, cmp, profile, returned, processing_jobs, threads, polled>>

\* the step the loop of apply_preprocessing_steps is at
AtStep(action) == pc = "loop" /\ ip <= Len(request) /\ request[ip].action = action

\* after a step of the loop: on to the next one, or out with the exception
Advance(r) ==
    /\ pc' = IF r.raised THEN "except" ELSE "loop"
    /\ ip' = IF r.raised THEN ip ELSE ip + 1
    /\ UNCHANGED <<request, files, cmp, profile, returned, processing_jobs, threads, polled>>

step_change_type ==
    /\ AtStep("change_type")
    /\ LET r == change_data_type(pre, request[ip].column, request[ip].method)
       IN  Ran("change_data_type", r) /\ Advance(r)

step_fill_missing ==
    /\ AtStep("fill_missing")
    /\ LET r == fill_missing_values(pre, request[ip].column, request[ip].method, request[ip].value)
       IN  Ran("fill_missing_values", r) /\ Advance(r)

step_encode ==
    /\ AtStep("encode")
    /\ LET r == encode_categorical(pre, request[ip].column, request[ip].method)
       IN  Ran("encode_categorical", r) /\ Advance(r)

step_remove_outliers ==
    /\ AtStep("remove_outliers")
    /\ LET r == remove_outliers(pre, request[ip].column)
       IN  Ran("remove_outliers", r) /\ Advance(r)

step_drop_column ==
    /\ AtStep("drop_column")
    /\ LET r == drop_column(pre, request[ip].column)
       IN  Ran("drop_column", r) /\ Advance(r)

\* the threshold apply_preprocessing_steps passes, in thousandths (0.5)
CleanupThreshold == 500

\* the two cleanup passes, one after the other: the second works on the
\* object as the first left it
CleanupPasses(P) ==
    CHOOSE out \in { remove_duplicates(dropped).self :
                        dropped \in { drop_high_missing_columns(P, CleanupThreshold).self } } : TRUE

\* one pass of the loop of apply_preprocessing_steps, by the action of the step
ApplyStep(P, st) ==
    CASE st.action = "change_type" -> change_data_type(P, st.column, st.method)
      [] st.action = "fill_missing" -> fill_missing_values(P, st.column, st.method, st.value)
      [] st.action = "encode" -> encode_categorical(P, st.column, st.method)
      [] st.action = "remove_outliers" -> remove_outliers(P, st.column)
      [] st.action = "drop_column" -> drop_column(P, st.column)
      [] OTHER -> Return(P)

RECURSIVE StepLoop(_, _, _)
\* the loop from step i on: it stops at the first step that raises
StepLoop(P, steps, i) ==
    IF i > Len(steps) THEN Return(P)
    ELSE CHOOSE out \in { IF r.raised THEN r ELSE StepLoop(r.self, steps, i + 1) :
                             r \in { ApplyStep(P, steps[i]) } } : TRUE

\* apply_preprocessing_steps(steps) as one call: the loop, then the two
\* cleanup passes
apply_preprocessing_steps(P, steps) ==
    CHOOSE out \in { IF r.raised THEN r ELSE Return(CleanupPasses(r.self)) :
                        r \in { StepLoop(P, steps, 1) } } : TRUE

\* after the loop: self.drop_high_missing_columns(threshold=0.5)
cleanup_drop_high_missing ==
    /\ pc = "loop" /\ ip > Len(request)
    /\ Ran("drop_high_missing_columns", drop_high_missing_columns(pre, CleanupThreshold))
    /\ pc' = "cleanup"
    /\ UNCHANGED <<request, ip, files, cmp, profile, returned, processing_jobs, threads, polled>>

\* then self.remove_duplicates(), and apply_preprocessing_steps returns
cleanup_remove_duplicates ==
    /\ pc = "cleanup"
    /\ Ran("remove_duplicates", remove_duplicates(pre))
    /\ pc' = "applied"
    /\ UNCHANGED <<request, ip, files, cmp, profile, returned, processing_jobs, threads, polled>>

\* the rest of the run: the processed frame is written, the report generated,
\* the job completed with its result
bg_finish ==
    /\ pc = "applied"
    /\ pre' = generate_report(pre)
    /\ files' = ("processed.csv" :> Df(pre)) @@ files
    /\ job' = [job EXCEPT !.progress = 100,
                          !.status = "completed",
                          !.result = <<[processed_file |-> "processed.csv",
                                        report |-> generate_report(pre).report,
                                        processed_shape |-> Shape(Df(pre))]>>]
    /\ pc' = "completed"
    /\ UNCHANGED <<request, ip, calls, cmp, profile, returned, processing_jobs, threads, polled>>

\* `except Exception as e`: the job fails with the message of the exception
bg_except ==
    /\ pc = "except"
    /\ job' = [job EXCEPT !.status = "failed"]
    /\ pc' = "failed"
    /\ UNCHANGED <<pre, request, ip, files, calls, cmp, profile, returned, processing_jobs, threads, polled>>

Next ==
    \/ if_steps
    \/ step_change_type
    \/ step_fill_missing
    \/ step_encode
    \/ step_remove_outliers
    \/ step_drop_column
    \/ cleanup_drop_high_missing
    \/ cleanup_remove_duplicates
    \/ bg_finish
    \/ bg_except

Spec == Init /\ [][Next]_vars

(***************************************************************************)
(* Properties of the pipeline run                                          *)
(***************************************************************************)
\* C1: no step that apply_preprocessing_steps dispatches and no cleanup pass
\* changes the original dataset the DataPreprocessor retains: in every step of
\* a run, whether the call goes on, returns or fails, original_df has the
\* columns, rows and cells it had before the step, hence those it had at
\* construction.
C1_OriginalNeverChanges == [][OriginalDf(pre)' = OriginalDf(pre)]_vars

\* a step has filled a column of the working frame in place and the call returned
C1_Witness ==
    /\ pc = "applied"
    /\ \E k \in DOMAIN calls : calls[k].op = "fill_missing_values" /\ calls[k].effect
    /\ Df(pre) # OriginalDf(pre)

\* C2: every pipeline run that completes has finished by running
\* drop_high_missing_columns and then remove_duplicates, the last two
\* operations of the run, whatever the step list, the empty one included.
C2_CleanupAlwaysRuns ==
    pc = "completed" =>
        /\ Len(calls) >= 2
        /\ calls[Len(calls) - 1].op = "drop_high_missing_columns"
        /\ calls[Len(calls)].op = "remove_duplicates"

\* C3: once drop_high_missing_columns and remove_duplicates have run, running
\* the pair a second time leaves the dataset as the first run left it.
C3_CleanupIdempotent ==
    (pc = "applied" /\ calls # <<>>) => Df(CleanupPasses(pre)) = Df(pre)

\* C4: when apply_preprocessing_steps has returned and every explicit step
\* changed the dataset, the step log has one entry for each explicit step, one
\* more if drop_high_missing_columns dropped a column and one more if
\* remove_duplicates removed a row.
C4_AuditComplete ==
    (pc = "applied" /\ request # <<>> /\ \A k \in 1..Len(request) : calls[k].effect) =>
        Len(pre.steps) = Len(request)
                         + (IF calls[Len(request) + 1].effect THEN 1 ELSE 0)
                         + (IF calls[Len(request) + 2].effect THEN 1 ELSE 0)

\* two explicit steps and both cleanup passes changed the dataset
C4_Witness ==
    /\ pc = "applied"
    /\ Len(request) = 2
    /\ \A k \in 1..4 : calls[k].effect

\* C5: every operation that changed the working dataset appended exactly one
\* entry to the step log.
C5_NoSilentMutation ==
    \A k \in DOMAIN calls : calls[k].effect => calls[k].logged = 1

\* an existing column was dropped by a drop_column step, and an outlier row by
\* remove_outliers
C5_Witness ==
    /\ \E k \in DOMAIN calls : calls[k].op = "drop_column" /\ calls[k].effect
    /\ \E k \in DOMAIN calls : calls[k].op = "remove_outliers" /\ calls[k].effect

\* C6: a change_data_type, fill_missing_values, remove_outliers,
\* encode_categorical, drop_high_missing_columns or remove_duplicates call
\* that returned and left the working dataset as it was appended nothing to
\* the step log.
C6_NoOpNotLogged ==
    \A k \in DOMAIN calls :
        (calls[k].op # "drop_column" /\ ~calls[k].raised /\ ~calls[k].effect) => calls[k].logged = 0

\* C7: the step log after any step of a run is the log before it with no entry
\* or one entry appended at the end.
C7_LogAppendOnly ==
    [][/\ Len(pre.steps)' \in {Len(pre.steps), Len(pre.steps) + 1}
       /\ SubSeq(pre.steps', 1, Len(pre.steps)) = pre.steps]_vars

\* a run completed with a log of at least three entries
C7_Witness == pc = "completed" /\ Len(pre.steps) >= 3

\* C14: when encode_categorical(column, "label") has returned, two cells of
\* the column have the same code exactly when they had the same value, and the
\* step log entry of the step records a value-to-code mapping whose inverse
\* takes the code of every cell back to the value the cell had.
C14_LabelRoundTrip ==
    [][(AtStep("encode") /\ request[ip].method = "label" /\ pc' = "loop") =>
          LET column == request[ip].column
              before == Column(Df(pre), column)
              after == Column(Df(pre'), column)
              entry == pre'.steps[Len(pre'.steps)]
          IN  /\ \A i, j \in DOMAIN before : (before[i] = before[j]) <=> (after[i] = after[j])
              /\ "mapping" \in DOMAIN entry
              /\ \A i \in DOMAIN before :
                     \E k \in DOMAIN entry.mapping :
                         /\ IntCell(entry.mapping[k][2]) = after[i]
                         /\ before[i].k = "str"
                         /\ Text(before[i].v) = entry.mapping[k][1]]_vars

\* C15: remove_outliers on a numeric column removes the rows whose value lies
\* below Q1 - 1.5 IQR or above Q3 + 1.5 IQR and no other row, a row whose
\* value is missing being kept, and the removed count it logs is the number of
\* those rows.
C15_OnlyOutliersRemoved ==
    [][(/\ AtStep("remove_outliers")
        /\ request[ip].column \in Range(Df(pre).columns)
        /\ IsNumericDtype(Df(pre).dtype[request[ip].column])) =>
          LET s == Column(Df(pre), request[ip].column)
              Q1 == quantile(s, 1)
              Q3 == quantile(s, 3)
              lower_bound == Q1.v - ((3 * (Q3.v - Q1.v)) \div 2)
              upper_bound == Q3.v + ((3 * (Q3.v - Q1.v)) \div 2)
              outliers == {i \in DOMAIN s : ~isnull(s[i]) /\ ~isnull(Q1)
                                            /\ (s[i].v < lower_bound \/ s[i].v > upper_bound)}
          IN  /\ Df(pre') = SelectRows(Df(pre), DOMAIN s \ outliers)
              /\ outliers # {} => pre'.steps[Len(pre'.steps)].removed_count = Cardinality(outliers)]_vars

\* C16: fill_missing_values(column, "mean") on a numeric column with a value
\* returns; the column then has no missing cell, every cell that was missing
\* holds the mean of the cells that were not, the other cells are as they
\* were, and the step log entry shows that mean as the fill value.
C16_MeanFill ==
    [][(/\ AtStep("fill_missing") /\ request[ip].method = "mean"
        /\ request[ip].column \in Range(Df(pre).columns)
        /\ Df(pre).dtype[request[ip].column] \in {"int64", "float64", "Int64"}
        /\ nunique(Column(Df(pre), request[ip].column)) > 0) =>
          LET before == Column(Df(pre), request[ip].column)
              after == Column(Df(pre'), request[ip].column)
              m == mean(before)
          IN  /\ pc' = "loop"
              /\ \A i \in DOMAIN after : after[i] = IF isnull(before[i]) THEN m ELSE before[i]
              /\ NullCount(before) > 0 =>
                     pre'.steps[Len(pre'.steps)].fill_value = Text(FormatFloat(m.v))]_vars

\* C17: a drop_column step that names a column the dataset does not have
\* leaves the dataset as it was and still appends one drop_column entry to
\* the step log.
C17_AbsentDropLogged ==
    [][(AtStep("drop_column") /\ request[ip].column \notin Range(Df(pre).columns)) =>
          /\ Df(pre') = Df(pre)
          /\ Len(pre'.steps) = Len(pre.steps) + 1
          /\ pre'.steps[Len(pre'.steps)].step = "drop_column"]_vars

\* C18: change_data_type on a column the dataset has returns for each of the
\* six target types, and logs the change; after a conversion to numeric,
\* integer or float every cell of the column is a number or missing, after a
\* conversion to datetime a timestamp or missing.
C18_ConversionSucceeds ==
    [][(/\ AtStep("change_type")
        /\ request[ip].column \in Range(Df(pre).columns)
        /\ request[ip].method \in {"numeric", "integer", "float", "datetime", "string", "category"}) =>
          LET after == Column(Df(pre'), request[ip].column)
              new_type == request[ip].method
          IN  /\ pc' = "loop"
              /\ pre'.steps[Len(pre'.steps)].step = "change_data_type"
              /\ new_type \in {"numeric", "integer", "float"} =>
                     \A i \in DOMAIN after : after[i].k \in {"nan", "num"}
              /\ new_type = "datetime" =>
                     \A i \in DOMAIN after : after[i].k \in {"nan", "ts"}]_vars

\* C19: after a one-hot encoding that returned, the encoded column is gone,
\* there is one boolean column per distinct value of it plus one for the
\* missing cells, these columns stand from the position the encoded column
\* had, and the other columns are in the order they were.  (Columns whose
\* values give two new columns the same name, the text "nan" beside a missing
\* cell, are left aside: a frame here holds one column per name.)
C19_OneHotInPlace ==
    [][(/\ AtStep("encode") /\ request[ip].method = "onehot" /\ pc' = "loop"
        /\ Str(<<"n", "a", "n">>) \notin Range(Column(Df(pre), request[ip].column))) =>
          LET column == request[ip].column
              columns == Df(pre).columns
              after == Df(pre').columns
              at == CHOOSE k \in DOMAIN columns : columns[k] = column
              dummies == get_dummies(Column(Df(pre), column), "object", column).columns
              n == nunique(Column(Df(pre), column)) + 1
          IN  /\ column \notin Range(after)
              /\ Len(dummies) = n
              /\ Len(after) = Len(columns) - 1 + n
              /\ \A k \in 1..n : after[at + k - 1] \in Range(dummies) /\ Df(pre').dtype[after[at + k - 1]] = "bool"
              /\ SubSeq(after, 1, at - 1) \o SubSeq(after, at + n, Len(after))
                     = SubSeq(columns, 1, at - 1) \o SubSeq(columns, at + 1, Len(columns))]_vars

\* C20: in the report of a completed run (rows are only ever removed by
\* remove_outliers and remove_duplicates), duplicates_removed is the number of
\* rows of the original dataset minus the number of rows of the final one.
C20_DuplicatesRemovedIsRowDelta ==
    pc = "completed" =>
        job.result[1].report.duplicates_removed = Len(OriginalDf(pre).rows) - Len(Df(pre).rows)

\* C23: the missing_count of the log entry of a fill_missing step is the
\* number of cells of the column that were missing before the step and are
\* not missing after it; the cells a forward or backward fill cannot reach
\* stay missing and are not counted.
C23_MissingCountIsFilled ==
    [][(AtStep("fill_missing") /\ Len(pre'.steps) = Len(pre.steps) + 1) =>
          LET before == Column(Df(pre), request[ip].column)
              after == Column(Df(pre'), request[ip].column)
              filled == {i \in DOMAIN before : isnull(before[i]) /\ ~isnull(after[i])}
          IN  pre'.steps[Len(pre'.steps)].missing_count = Cardinality(filled)]_vars

\* C28: a remove_outliers step that follows a change_type step of the same
\* column to numeric, integer or float applies the IQR rule to the converted
\* column: no row whose value lies outside [Q1 - 1.5 IQR, Q3 + 1.5 IQR] is
\* left, and when there was such a row the removal is logged.
C28_ConvertedIsNumeric ==
    [][(/\ AtStep("remove_outliers") /\ ip > 1
        /\ request[ip - 1].action = "change_type"
        /\ request[ip - 1].column = request[ip].column
        /\ request[ip - 1].method \in {"numeric", "integer", "float"}) =>
          LET s == Column(Df(pre), request[ip].column)
              after == Column(Df(pre'), request[ip].column)
              Q1 == quantile(s, 1)
              Q3 == quantile(s, 3)
              lower_bound == Q1.v - ((3 * (Q3.v - Q1.v)) \div 2)
              upper_bound == Q3.v + ((3 * (Q3.v - Q1.v)) \div 2)
              outlier(c) == ~isnull(c) /\ ~isnull(Q1) /\ (c.v < lower_bound \/ c.v > upper_bound)
          IN  /\ \A i \in DOMAIN after : ~outlier(after[i])
              /\ (\E i \in DOMAIN s : outlier(s[i])) =>
                     /\ Len(pre'.steps) = Len(pre.steps) + 1
                     /\ pre'.steps[Len(pre'.steps)].step = "remove_outliers"]_vars

\* C29: a step of the list that raises leaves the working dataset, the step
\* log and the report as they were just before it, so what the earlier steps
\* did is kept; the loop is left with the error.
C29_FailedStepChangesNothing ==
    [][(pc = "loop" /\ pc' = "except") =>
          /\ Df(pre') = Df(pre)
          /\ pre'.steps = pre.steps
          /\ pre'.report = pre.report
          /\ job'.error # <<>>]_vars

\* a first step changed and logged, then a conversion of an existing column
\* raised
C29_Witness ==
    /\ pc = "except" /\ Len(calls) = 2
    /\ calls[1].effect /\ calls[1].logged = 1
    /\ calls[2].raised /\ calls[2].op = "change_data_type"
    /\ request[2].column \in Range(Df(pre).columns)
    /\ Len(pre.steps) = 1 /\ Df(pre) # OriginalDf(pre)

(***************************************************************************)
(* The comparison: compare_datasets is called on an uploaded dataset and a *)
(* dataset the DataPreprocessor made of it.                                *)
(***************************************************************************)
\* a dataset of n rows: "f" numbers the rows (every pair of rows alike when
\* dup), "g" is a text of three values, "t" a number of k values; the last
\* `far` rows carry values of "t" far from the rest and the first `gaps` rows
\* lack "f"
Table(n, k, dup, far, gaps) ==
    LET key(i) == IF dup THEN (i + 1) \div 2 ELSE i
        g(i) == <<X, Y, Z>>[(key(i) % 3) + 1]
        t(i) == IF i > n - far THEN IntCell(100 * i) ELSE IntCell(key(i) % k)
    IN  [columns |-> <<"f", "g", "t">>,
         dtype |-> [c \in {"f", "g", "t"} |-> IF c = "g" THEN "object"
                                               ELSE IF c = "f" /\ gaps > 0 THEN "float64" ELSE "int64"],
         rows |-> [i \in 1..n |-> [c \in {"f", "g", "t"} |->
                     IF c = "f" THEN (IF i <= gaps THEN NaN ELSE IntCell(key(i)))
                     ELSE IF c = "g" THEN g(i) ELSE t(i)]]]

TwoClasses == Table(24, 2, FALSE, 0, 0)
ManyValues == Table(27, 9, FALSE, 3, 0)
NineRows == Table(9, 2, FALSE, 0, 0)
TwelveRows == Table(12, 2, FALSE, 0, 0)
FiveGaps == Table(24, 2, FALSE, 0, 5)
Doubled == Table(24, 2, TRUE, 0, 0)

\* the dataset after the cleanup passes alone
Cleaned(d) == Df(CleanupPasses(DataPreprocessor(d)))

\* the pairs compared: an original and what preprocessing made of it
ComparedPairs ==
    { <<TwoClasses, Cleaned(TwoClasses)>>,
      <<TwoClasses, Df(drop_column(DataPreprocessor(TwoClasses), "t").self)>>,
      <<ManyValues, Cleaned(ManyValues)>>,
      <<ManyValues, Df(remove_outliers(DataPreprocessor(ManyValues), "t").self)>>,
      <<ManyValues, Df(drop_column(DataPreprocessor(ManyValues), "t").self)>>,
      <<NineRows, Cleaned(NineRows)>>,
      <<TwelveRows, Cleaned(TwelveRows)>>,
      <<FiveGaps, Cleaned(FiveGaps)>>,
      <<FiveGaps, Df(fill_missing_values(DataPreprocessor(FiveGaps), "f", "mean", None).self)>>,
      <<Doubled, Cleaned(Doubled)>>,
      <<TwoClasses, Cleaned(NineRows)>> }

\* the target columns asked for: none, or "t"
Targets == {<<>>, <<"t">>}

\* what the four models score when nothing else is said, in ten-thousandths
BaseScores == <<8000, 8500, 7800, 8200>>

\* the models that raise in one evaluation, by their place in the battery:
\* none, any one of them, or all four
Failures == {F \in SUBSET (1..4) : Cardinality(F) \in {0, 1, 4}}

\* the fits an evaluation may meet: the scores lie at either of two levels, and
\* K-Means may or may not give a score
Fits ==
    {[failed |-> F, score |-> [k \in 1..4 |-> BaseScores[k] + shift], mse |-> 1200, mae |-> 900,
      silhouette |-> 4000 + shift, kmeans |-> b] : F \in Failures, shift \in {0, 500}, b \in BOOLEAN}

InitCompare ==
    /\ pre = DataPreprocessor(Frame(<<>>, <<>>))
    /\ request = <<>>
    /\ ip = 1
    /\ pc = "completed"
    /\ job = [status |-> "completed", progress |-> 100, result |-> <<>>, error |-> <<>>]
    /\ files = <<>>
    /\ calls = <<>>
    /\ \E pair \in ComparedPairs, target \in Targets :
           cmp = [phase |-> "called", original_df |-> pair[1], processed_df |-> pair[2], target_column |-> target]
    /\ profile = NotProfiled
    /\ returned = <<>>
    /\ processing_jobs = <<>>
    /\ threads = <<>>
    /\ polled = <<>>

\* comparator.compare_datasets(original_df, processed_df, target_column)
call_compare_datasets ==
    /\ cmp.phase = "called"
    /\ \E fit_orig \in Fits, fit_proc \in Fits :
           cmp' = compare_datasets(cmp.original_df, cmp.processed_df, cmp.target_column, fit_orig, fit_proc)
    /\ UNCHANGED <<pre, request, ip, pc, job, files, calls, profile, returned, processing_jobs, threads, polled>>

NextCompare == call_compare_datasets

SpecCompare == InitCompare /\ [][NextCompare]_vars

(***************************************************************************)
(* Properties of the comparison                                            *)
(***************************************************************************)
\* C8: a comparison succeeds only when the target column resolved on the
\* original dataset is a column of the processed dataset, and the processed
\* dataset is then scored against that column.
C8_AbsentTargetFails ==
    (cmp.phase = "returned" /\ cmp.result.status = "success") =>
        /\ cmp.target_col \in Range(cmp.processed_df.columns)
        /\ cmp.processed_target = cmp.target_col

\* C9: in a successful comparison there is a row for a model exactly when the
\* model succeeded in both the original and the processed results; no model
\* has two rows; a row shows the two scores and, as improvement, the processed
\* score minus the original score.
C9_Pairing ==
    (cmp.phase = "returned" /\ cmp.result.status = "success") =>
        LET rows == cmp.result.comparison
            succeeded(results, m) == \E k \in DOMAIN results : results[k].model = m /\ results[k].status = "success"
            models == {cmp.original_results[k].model : k \in DOMAIN cmp.original_results}
                      \cup {cmp.processed_results[k].model : k \in DOMAIN cmp.processed_results}
                      \cup {r.model : r \in rows}
        IN  /\ \A m \in models : (\E r \in rows : r.model = m)
                                 <=> (succeeded(cmp.original_results, m) /\ succeeded(cmp.processed_results, m))
            /\ \A r1, r2 \in rows : r1.model = r2.model => r1 = r2
            /\ \A r \in rows :
                   /\ \E k \in DOMAIN cmp.original_results :
                          cmp.original_results[k].model = r.model /\ cmp.original_results[k].score = r.original
                   /\ \E k \in DOMAIN cmp.processed_results :
                          cmp.processed_results[k].model = r.model /\ cmp.processed_results[k].score = r.processed
                   /\ r.improvement = Score(r.processed.v - r.original.v)

\* a comparison with a row whose scores differ, a model that succeeded on the
\* original alone and a model that succeeded on the processed dataset alone
C9_Witness ==
    /\ cmp.phase = "returned" /\ cmp.result.status = "success"
    /\ \E r \in cmp.result.comparison : r.improvement.v # 0
    /\ \E k \in DOMAIN cmp.original_results :
           /\ cmp.original_results[k].status = "success"
           /\ \A r \in cmp.result.comparison : r.model # cmp.original_results[k].model
    /\ \E k \in DOMAIN cmp.processed_results :
           /\ cmp.processed_results[k].status = "success"
           /\ \A r \in cmp.result.comparison : r.model # cmp.processed_results[k].model

\* C10: when prepare_data or evaluate_models raises, for the original or for
\* the processed dataset, compare_datasets returns, its result has status
\* "error" and no comparison row.
C10_FailureIsError ==
    (cmp.phase \in {"returned", "raised"} /\ cmp.failed_at # "") =>
        /\ cmp.phase = "returned"
        /\ cmp.result.status = "error"
        /\ cmp.result.comparison = {}

\* the original was evaluated and the evaluation of the processed dataset raised
C10_Witness ==
    /\ cmp.phase = "returned"
    /\ cmp.failed_at = "evaluate processed"
    /\ cmp.result.status = "error"

\* C11: evaluate_models raises "Not enough data for model evaluation" for a
\* frame of fewer than 20 rows, among them the frames of 10 to 19 complete rows
\* that prepare_data accepted: whatever the models would have scored, the
\* evaluation of such a dataset gives no result, for the original and, when
\* the original was evaluated, for the processed dataset.
C11_InsufficientData ==
    cmp.phase = "returned" =>
        LET n_orig == Len(dropna(cmp.original_df).rows)
            n_proc == Len(dropna(cmp.processed_df).rows)
            short(n) == n >= MinRowsPrepare /\ n < MinRowsEvaluate
            refused(at) == /\ cmp.failed_at = at
                           /\ cmp.result.error = "Not enough data for model evaluation"
                           /\ "original_results" \notin DOMAIN cmp
                           /\ "processed_results" \notin DOMAIN cmp
        IN  /\ short(n_orig) => refused("evaluate original")
            /\ (n_orig >= MinRowsEvaluate /\ short(n_proc) /\ cmp.processed_df.columns # <<>>)
                   => refused("evaluate processed")

\* a dataset of 24 rows, 19 of them complete, was prepared and its evaluation
\* refused
C11_Witness ==
    /\ cmp.phase = "returned"
    /\ Len(cmp.original_df.rows) >= MinRowsEvaluate
    /\ Len(dropna(cmp.original_df).rows) = MinRowsEvaluate - 1
    /\ cmp.failed_at = "evaluate original"

\* C12: an evaluation of a frame of at least 20 rows returns one result for
\* each of the four models of the battery of its problem type, in the order of
\* the battery, and nothing else but the K-Means result; a model that raised
\* has status "error" and score "Error", and the models after it are
\* evaluated all the same.
C12_FailureIsolated ==
    (cmp.phase = "returned" /\ cmp.failed_at = "") =>
        LET isolated(results, problem_type) ==
                /\ Len(results) >= 4
                /\ \A k \in 1..4 :
                       /\ results[k].model = Battery(problem_type)[k]
                       /\ results[k].status \in {"success", "error"}
                       /\ results[k].status = "error" => results[k].score = ErrorScore
                       /\ results[k].status = "success" => results[k].score.k = "num"
                /\ \A k \in 5..Len(results) : results[k].model = "K-Means"
                /\ Len(results) <= 5
        IN  /\ Len(dropna(cmp.original_df).rows) >= MinRowsEvaluate
            /\ Len(dropna(cmp.processed_df).rows) >= MinRowsEvaluate
            /\ isolated(cmp.original_results, cmp.problem_type_orig)
            /\ isolated(cmp.processed_results, cmp.problem_type_proc)

\* the first model of the battery raised and the three after it were scored
C12_Witness ==
    /\ cmp.phase = "returned" /\ cmp.failed_at = ""
    /\ cmp.original_results[1].status = "error"
    /\ \A k \in 2..4 : cmp.original_results[k].status = "success"

(***************************************************************************)
(* The dataset-info request: a DataPreprocessor is made of the uploaded    *)
(* dataset and asked for its column profile.                               *)
\* C25: when compare_datasets returns a success, the original and the
\* processed dataset were evaluated under the same problem type, and every
\* row of the table pairs two scores of the metric the row names.
C25_SameProblemType ==
    (cmp.phase = "returned" /\ cmp.result.status = "success") =>
        /\ cmp.problem_type_orig = cmp.problem_type_proc
        /\ cmp.result.problem_type = cmp.problem_type_proc
        /\ \A r \in cmp.result.comparison :
               /\ FirstSuccess(cmp.original_results, r.model)[1].metric = r.metric
               /\ FirstSuccess(cmp.processed_results, r.model)[1].metric = r.metric

(***************************************************************************)
MaxProfiledRows == 4

\* a frame of the single column "a"; read_csv gives a column with a text the
\* dtype object, a numeric column with a gap (or with nothing but gaps)
\* float64, int64 otherwise
OneColumn(cells) ==
    [columns |-> <<"a">>,
     dtype |-> [c \in {"a"} |-> IF \E i \in DOMAIN cells : cells[i].k = "str" THEN "object"
                                ELSE IF \E i \in DOMAIN cells : isnull(cells[i]) THEN "float64" ELSE "int64"],
     rows |-> [i \in DOMAIN cells |-> [c \in {"a"} |-> cells[i]]]]

\* n distinct values followed by m gaps
LongColumn(n, m, text) ==
    [i \in 1..(n + m) |-> IF i > n THEN NaN ELSE IF text THEN Str(<<"v">> \o Digits(i)) ELSE IntCell(i)]

\* the datasets profiled: every numeric and every text column of up to
\* MaxProfiledRows cells, the datasets of the pipeline, and long columns, more
\* than half missing, of 8, 12 and 25 distinct values
ProfiledDatasets ==
    {OneColumn(cells) : cells \in UNION {[1..n -> {NaN, IntCell(1), IntCell(2)}] : n \in 1..MaxProfiledRows}}
    \cup {OneColumn(cells) : cells \in UNION {[1..n -> {NaN, X, Y}] : n \in 1..MaxProfiledRows}}
    \cup Datasets
    \cup {OneColumn(LongColumn(n, 2 * n + 1, text)) : n \in {8, 12, 25}, text \in BOOLEAN}

InitProfile ==
    /\ \E d \in ProfiledDatasets : pre = DataPreprocessor(d)
    /\ request = <<>>
    /\ ip = 1
    /\ pc = "info"
    /\ job = [status |-> "none", progress |-> 0, result |-> <<>>, error |-> <<>>]
    /\ files = <<>>
    /\ calls = <<>>
    /\ cmp = NotCompared
    /\ profile = [phase |-> "asked"]
    /\ returned = <<>>
    /\ processing_jobs = <<>>
    /\ threads = <<>>
    /\ polled = <<>>

\* column_info = preprocessor.get_column_info()
get_dataset_info ==
    /\ profile.phase = "asked"
    /\ profile' = [phase |-> "answered", column_info |-> get_column_info(pre)]
    /\ UNCHANGED <<pre, request, ip, pc, job, files, calls, cmp, returned, processing_jobs, threads, polled>>

NextProfile == get_dataset_info

SpecProfile == InitProfile /\ [][NextProfile]_vars

\* C13: a column more than 50 percent missing is given the one suggestion
\* drop_column, whatever its dtype and its number of distinct values.
C13_OnlyDropSuggested ==
    profile.phase = "answered" =>
        \A k \in DOMAIN profile.column_info :
            (~isnull(profile.column_info[k].missing_percent) /\ profile.column_info[k].missing_percent.v > 50000)
                => profile.column_info[k].suggested_actions = <<"drop_column">>

(***************************************************************************)
(* The DataPreprocessor called method by method: a caller holds one object *)
(* and calls its public methods in any order, keeping the reports that     *)
(* generate_report hands back.                                             *)
(***************************************************************************)
\* the most calls a caller makes
MaxCalls == 3

\* the datasets the object is built from: duplicate rows; a column more than
\* half missing; duplicates beside a column half missing; an outlier
CalledDatasets ==
    { Frame(<<IntCell(1), IntCell(1), IntCell(2)>>, <<X, X, Y>>),
      Frame(<<NaN, NaN, IntCell(1)>>, <<X, Y, Y>>),
      Frame(<<NaN, NaN, IntCell(1), IntCell(1)>>, <<X, Y, Z, Z>>),
      Frame(<<IntCell(1), IntCell(1), IntCell(1), IntCell(100)>>, <<X, Y, Seven, NaN>>) }

\* the arguments of the calls of the four step methods
CalledSteps ==
    { ChangeType("a", "integer"), ChangeType("z", "float"),
      FillMissing("a", "mean", None), FillMissing("b", "mode", None),
      Encode("b", "label"), Encode("b", "onehot"),
      RemoveOutliers("a") }

\* the thresholds drop_high_missing_columns is called with, in thousandths
Thresholds == {CleanupThreshold, CleanupThreshold \div 2}

InitCalls ==
    /\ \E d \in CalledDatasets : pre = DataPreprocessor(d)
    /\ request = <<>>
    /\ ip = 1
    /\ pc = "object"
    /\ job = [status |-> "none", progress |-> 0, result |-> <<>>, error |-> <<>>]
    /\ files = <<>>
    /\ calls = <<>>
    /\ cmp = NotCompared
    /\ profile = NotProfiled
    /\ returned = <<>>
    /\ processing_jobs = <<>>
    /\ threads = <<>>
    /\ polled = <<>>

\* a method was called with the arguments args and ended as r (an exception
\* goes to the caller, who goes on)
Called(op, args, r) ==
    /\ pc = "object" /\ Len(calls) < MaxCalls
    /\ pre' = r.self
    /\ calls' = Append(calls, [op |-> op, args |-> args, raised |-> r.raised,
                               effect |-> Df(r.self) # Df(pre),
                               logged |-> Len(r.self.steps) - Len(pre.steps)])
    /\ UNCHANGED <<request, ip, pc, job, files, cmp, profile, processing_jobs, threads, polled>>

call_change_data_type ==
    \E st \in {x \in CalledSteps : x.action = "change_type"} :
        Called("change_data_type", st, change_data_type(pre, st.column, st.method)) /\ UNCHANGED returned

call_fill_missing_values ==
    \E st \in {x \in CalledSteps : x.action = "fill_missing"} :
        /\ Called("fill_missing_values", st, fill_missing_values(pre, st.column, st.method, st.value))
        /\ UNCHANGED returned

call_encode_categorical ==
    \E st \in {x \in CalledSteps : x.action = "encode"} :
        Called("encode_categorical", st, encode_categorical(pre, st.column, st.method)) /\ UNCHANGED returned

call_remove_outliers ==
    \E st \in {x \in CalledSteps : x.action = "remove_outliers"} :
        Called("remove_outliers", st, remove_outliers(pre, st.column)) /\ UNCHANGED returned

call_drop_high_missing_columns ==
    \E threshold \in Thresholds :
        /\ Called("drop_high_missing_columns", threshold, drop_high_missing_columns(pre, threshold))
        /\ UNCHANGED returned

call_remove_duplicates ==
    Called("remove_duplicates", None, remove_duplicates(pre)) /\ UNCHANGED returned

\* report = preprocessor.generate_report(): the caller keeps what it was handed
call_generate_report ==
    /\ Called("generate_report", None, Return(generate_report(pre)))
    /\ returned' = Append(returned, generate_report(pre).report)

NextCalls ==
    \/ call_change_data_type
    \/ call_fill_missing_values
    \/ call_encode_categorical
    \/ call_remove_outliers
    \/ call_drop_high_missing_columns
    \/ call_remove_duplicates
    \/ call_generate_report

SpecCalls == InitCalls /\ [][NextCalls]_vars

\* C21: a report generate_report has returned keeps the contents it had when
\* it was returned, whatever is called on the DataPreprocessor afterwards: the
\* report as it is now (self.report, which is what was handed out) equals each
\* report as it was returned.
C21_ReportReadOnly ==
    \A k \in DOMAIN returned : pre.report = returned[k]

\* C22: drop_high_missing_columns called a second time with the same
\* threshold right after the first call, or remove_duplicates called a second
\* time right after the first, leaves the dataset as the first call left it
\* and appends nothing to the step log.
C22_CleanupCallIdempotent ==
    [][LET n == Len(calls')
       IN  (/\ pc = "object" /\ n = Len(calls) + 1 /\ n >= 2
            /\ calls'[n].op \in {"drop_high_missing_columns", "remove_duplicates"}
            /\ calls'[n - 1].op = calls'[n].op
            /\ calls'[n - 1].args = calls'[n].args) =>
               /\ Df(pre') = Df(pre)
               /\ pre'.steps = pre.steps]_vars

\* the same cleanup method was called twice in a row, and the first call
\* changed the dataset and logged it
C22_Witness ==
    /\ pc = "object" /\ Len(calls) >= 2
    /\ calls[1].op \in {"drop_high_missing_columns", "remove_duplicates"}
    /\ calls[2].op = calls[1].op /\ calls[2].args = calls[1].args
    /\ calls[1].effect /\ calls[1].logged = 1

(***************************************************************************)
(* The job table (backend/app.py): preprocess_dataset creates a job and    *)
(* starts a worker thread on _process_dataset_background; get_job_status   *)
(* reads the table at any moment.  A worker is stepped statement by        *)
(* statement where it writes what other threads read (processing_jobs and  *)
(* the processed folder); what it does on its own locals between two such  *)
(* writes is part of the step.  Loading the dataset, writing the file, a   *)
(* database update and resolving the session either work or raise.  The    *)
(* one uploaded dataset is there from the start; a request for a dataset   *)
(* that does not exist (404) changes nothing and is left out, as is the    *)
(* database fallback of get_job_status for a job the table does not have.  *)
(***************************************************************************)
JobIds == {"j1", "j2"}

\* the id of the uploaded dataset and the file it was saved to
dataset_id == "d"
UploadedFile == "upload.csv"

\* the uploaded dataset: two columns, an outlier, a missing value
JobDatasets ==
    { Frame(<<IntCell(1), IntCell(1), IntCell(1), IntCell(100)>>, <<X, Y, Seven, NaN>>) }

\* the step lists of the requests: none, one that changes the dataset, and one
\* that raises
JobStepLists ==
    { <<>>, <<DropColumn("a")>>, <<ChangeType("z", "float")>> }

InitJobs ==
    /\ pre = DataPreprocessor(Frame(<<>>, <<>>))
    /\ request = <<>>
    /\ ip = 1
    /\ pc = "server"
    /\ job = [status |-> "none", progress |-> 0, result |-> <<>>, error |-> <<>>]
    /\ \E d \in JobDatasets : files = (UploadedFile :> d)
    /\ calls = <<>>
    /\ cmp = NotCompared
    /\ profile = NotProfiled
    /\ returned = <<>>
    /\ processing_jobs = <<>>
    /\ threads = <<>>
    /\ polled = <<>>

\* f"processed_{dataset_id}.csv"
processed_filename == "processed_" \o dataset_id \o ".csv"

\* POST /dataset/<dataset_id>/preprocess: the job is entered in the table, the
\* database row committed and the worker started; when the commit raises the
\* handler answers 500 and no worker is started
preprocess_dataset ==
    \E job_id \in JobIds \ DOMAIN processing_jobs, steps \in JobStepLists, committed \in BOOLEAN :
        /\ pc = "server"
        /\ job_id = "j2" => "j1" \in DOMAIN processing_jobs
        /\ processing_jobs' = (job_id :> [dataset_id |-> dataset_id, status |-> "processing", progress |-> 0,
                                          result |-> <<>>, error |-> <<>>]) @@ processing_jobs
        /\ threads' = IF committed
                      THEN (job_id :> [pc |-> "progress_10", steps |-> steps, preprocessor |-> <<>>, e |-> ""]) @@ threads
                      ELSE threads
        /\ UNCHANGED <<pre, request, ip, pc, job, files, calls, cmp, profile, returned, polled>>

\* the worker of job_id is at the statement `at`
At(job_id, at) == pc = "server" /\ job_id \in DOMAIN threads /\ threads[job_id].pc = at

\* the worker goes on to the statement `to`
Goto(job_id, to) == threads' = [threads EXCEPT ![job_id].pc = to]

\* an exception in the try block that the worker does not catch
CatchNothing(job_id, e) == threads' = [threads EXCEPT ![job_id].pc = "done", ![job_id].e = e]

\* an exception in the try block: control goes to `except Exception as e`
Catch(job_id, e) == threads' = [threads EXCEPT ![job_id].pc = "except_status", ![job_id].e = e]

\* an exception raised inside the handler: the thread ends with it
Uncaught(job_id, e) == threads' = [threads EXCEPT ![job_id].pc = "done", ![job_id].e = e]

\* processing_jobs[job_id]['progress'] = 10
w_progress_10(job_id) ==
    /\ At(job_id, "progress_10")
    /\ processing_jobs' = [processing_jobs EXCEPT ![job_id].progress = 10]
    /\ Goto(job_id, "load")
    /\ UNCHANGED <<pre, request, ip, pc, job, files, calls, cmp, profile, returned, polled>>

\* dataset = Dataset.query.get(dataset_id); df = read_dataset_file(dataset.filename)
w_load(job_id) ==
    /\ At(job_id, "load")
    /\ \E loaded \in BOOLEAN :
           IF loaded THEN Goto(job_id, "construct") ELSE Catch(job_id, "cannot load the dataset")
    /\ UNCHANGED <<pre, request, ip, pc, job, files, calls, cmp, profile, returned, processing_jobs, polled>>

\* preprocessor = DataPreprocessor(df); processing_jobs[job_id]['progress'] = 30
w_construct(job_id) ==
    /\ At(job_id, "construct")
    /\ threads' = [threads EXCEPT ![job_id].pc = "apply",
                                  ![job_id].preprocessor = <<DataPreprocessor(files[UploadedFile])>>]
    /\ processing_jobs' = [processing_jobs EXCEPT ![job_id].progress = 30]
    /\ UNCHANGED <<pre, request, ip, pc, job, files, calls, cmp, profile, returned, polled>>

\* if steps: preprocessor.apply_preprocessing_steps(steps)
w_apply(job_id) ==
    /\ At(job_id, "apply")
    /\ \E t \in {threads[job_id]} :
           \E r \in { IF t.steps # <<>> THEN apply_preprocessing_steps(t.preprocessor[1], t.steps)
                      ELSE Return(t.preprocessor[1]) } :
               IF r.raised THEN Catch(job_id, r.error)
               ELSE threads' = [threads EXCEPT ![job_id].pc = "progress_70", ![job_id].preprocessor = <<r.self>>]
    /\ UNCHANGED <<pre, request, ip, pc, job, files, calls, cmp, profile, returned, processing_jobs, polled>>

\* processing_jobs[job_id]['progress'] = 70
w_progress_70(job_id) ==
    /\ At(job_id, "progress_70")
    /\ processing_jobs' = [processing_jobs EXCEPT ![job_id].progress = 70]
    /\ Goto(job_id, "save")
    /\ UNCHANGED <<pre, request, ip, pc, job, files, calls, cmp, profile, returned, polled>>

\* preprocessor.df.to_csv(processed_path, index=False)
w_save(job_id) ==
    /\ At(job_id, "save")
    /\ \E written \in BOOLEAN :
           IF written
           THEN /\ files' = (processed_filename :> Df(threads[job_id].preprocessor[1])) @@ files
                /\ Goto(job_id, "progress_100")
           ELSE /\ Catch(job_id, "cannot write the processed file")
                /\ UNCHANGED files
    /\ UNCHANGED <<pre, request, ip, pc, job, calls, cmp, profile, returned, processing_jobs, polled>>

\* report = preprocessor.generate_report(); processing_jobs[job_id]['progress'] = 100
w_progress_100(job_id) ==
    /\ At(job_id, "progress_100")
    /\ threads' = [threads EXCEPT ![job_id].pc = "status",
                                  ![job_id].preprocessor = <<generate_report(@[1])>>]
    /\ processing_jobs' = [processing_jobs EXCEPT ![job_id].progress = 100]
    /\ UNCHANGED <<pre, request, ip, pc, job, files, calls, cmp, profile, returned, polled>>

\* processing_jobs[job_id]['status'] = 'completed'
w_status(job_id) ==
    /\ At(job_id, "status")
    /\ processing_jobs' = [processing_jobs EXCEPT ![job_id].status = "completed"]
    /\ Goto(job_id, "result")
    /\ UNCHANGED <<pre, request, ip, pc, job, files, calls, cmp, profile, returned, polled>>

\* processing_jobs[job_id]['result'] = {...}
w_result(job_id) ==
    /\ At(job_id, "result")
    /\ LET P == threads[job_id].preprocessor[1]
       IN  processing_jobs' = [processing_jobs EXCEPT ![job_id].result =
                                   <<[processed_file |-> processed_filename,
                                      report |-> P.report,
                                      processed_shape |-> Shape(Df(P))]>>]
    /\ Goto(job_id, "db_update")
    /\ UNCHANGED <<pre, request, ip, pc, job, files, calls, cmp, profile, returned, polled>>

\* job = ProcessingJob.query.get(job_id) ... db.session.commit()
w_db_update(job_id) ==
    /\ At(job_id, "db_update")
    /\ \E committed \in BOOLEAN :
           IF committed THEN Goto(job_id, "track") ELSE Catch(job_id, "cannot update the job row")
    /\ UNCHANGED <<pre, request, ip, pc, job, files, calls, cmp, profile, returned, processing_jobs, polled>>

\* session_id = get_or_create_session_id(); analytics.track_dataset_action(...):
\* resolving the session may raise; track_dataset_action catches what it raises
w_track(job_id) ==
    /\ At(job_id, "track")
    /\ \E resolved \in BOOLEAN :
           IF resolved THEN Goto(job_id, "done") ELSE Catch(job_id, "cannot resolve the session")
    /\ UNCHANGED <<pre, request, ip, pc, job, files, calls, cmp, profile, returned, processing_jobs, polled>>

\* except Exception as e: processing_jobs[job_id]['status'] = 'failed'
w_except_status(job_id) ==
    /\ At(job_id, "except_status")
    /\ processing_jobs' = [processing_jobs EXCEPT ![job_id].status = "failed"]
    /\ Goto(job_id, "except_error")
    /\ UNCHANGED <<pre, request, ip, pc, job, files, calls, cmp, profile, returned, polled>>

\* processing_jobs[job_id]['error'] = str(e)
w_except_error(job_id) ==
    /\ At(job_id, "except_error")
    /\ processing_jobs' = [processing_jobs EXCEPT ![job_id].error = <<threads[job_id].e>>]
    /\ Goto(job_id, "except_db")
    /\ UNCHANGED <<pre, request, ip, pc, job, files, calls, cmp, profile, returned, polled>>

\* the database update of the handler; if it raises the thread ends with it
w_except_db(job_id) ==
    /\ At(job_id, "except_db")
    /\ \E committed \in BOOLEAN :
           IF committed THEN Goto(job_id, "done") ELSE Uncaught(job_id, "cannot update the job row")
    /\ UNCHANGED <<pre, request, ip, pc, job, files, calls, cmp, profile, returned, processing_jobs, polled>>

\* the steps of the worker of one job
_process_dataset_background(job_id) ==
    \/ w_progress_10(job_id)
    \/ w_load(job_id)
    \/ w_construct(job_id)
    \/ w_apply(job_id)
    \/ w_progress_70(job_id)
    \/ w_save(job_id)
    \/ w_progress_100(job_id)
    \/ w_status(job_id)
    \/ w_result(job_id)
    \/ w_db_update(job_id)
    \/ w_track(job_id)
    \/ w_except_status(job_id)
    \/ w_except_error(job_id)
    \/ w_except_db(job_id)

\* GET /job/<job_id>/status: a copy of the job's entry as it is at this moment
get_job_status ==
    \E job_id \in JobIds :
        /\ pc = "server"
        /\ polled' = IF job_id \in DOMAIN processing_jobs
                     THEN <<[job_id |-> job_id, code |-> 200, job_data |-> processing_jobs[job_id]]>>
                     ELSE <<[job_id |-> job_id, code |-> 404]>>
        /\ UNCHANGED <<pre, request, ip, pc, job, files, calls, cmp, profile, returned, processing_jobs, threads>>

\* the requests that start jobs, and the workers
NextWorkers ==
    \/ preprocess_dataset
    \/ \E job_id \in JobIds : _process_dataset_background(job_id)

NextJobs ==
    \/ NextWorkers
    \/ get_job_status

SpecJobs == InitJobs /\ [][NextJobs]_vars

\* the workers run: each one that can take a step eventually takes one.  The
\* status polls, which write nothing a worker reads, are left out.
SpecJobsFair ==
    InitJobs /\ [][NextWorkers]_vars /\ \A job_id \in JobIds : WF_vars(_process_dataset_background(job_id))

\* C24: once a job is completed and has its result, nothing that fails
\* afterwards (the database update, resolving the session, the analytics
\* record) changes its status or its result; a completed job never becomes
\* failed.
C24_CompletedStaysCompleted ==
    [][\A job_id \in DOMAIN processing_jobs :
           (processing_jobs[job_id].status = "completed" /\ processing_jobs[job_id].result # <<>>) =>
               /\ processing_jobs'[job_id].status = "completed"
               /\ processing_jobs'[job_id].result = processing_jobs[job_id].result]_vars

\* C26: a response of get_job_status that shows status "completed" carries
\* the result of the job and progress 100.
C26_CompletedHasResult ==
    \A k \in DOMAIN polled :
        (polled[k].code = 200 /\ polled[k].job_data.status = "completed") =>
            /\ polled[k].job_data.result # <<>>
            /\ polled[k].job_data.progress = 100

\* C27: when two jobs for the same dataset were started with different step
\* lists, the result of each completed job names a stored file that holds
\* that job's own transformed dataset, and the shape and the report of the
\* result are those of that file.
C27_OwnOutput ==
    (DOMAIN threads = JobIds /\ threads["j1"].steps # threads["j2"].steps) =>
        \A job_id \in JobIds :
            (processing_jobs[job_id].status = "completed" /\ processing_jobs[job_id].result # <<>>) =>
                LET result == processing_jobs[job_id].result[1]
                    own == Df(threads[job_id].preprocessor[1])
                IN  /\ result.processed_file \in DOMAIN files
                    /\ files[result.processed_file] = own
                    /\ result.processed_shape = Shape(files[result.processed_file])
                    /\ result.report.processed_shape = Shape(files[result.processed_file])

\* C30: a job whose worker was started and keeps being scheduled reaches
\* status "completed" or "failed", whatever fails on the way; and once a job
\* is completed or failed its progress never decreases.
C30_JobEnds ==
    /\ \A job_id \in JobIds :
           (job_id \in DOMAIN threads)
               ~> (job_id \in DOMAIN processing_jobs /\ processing_jobs[job_id].status \in {"completed", "failed"})
    /\ [][\A job_id \in DOMAIN processing_jobs :
              processing_jobs[job_id].status \in {"completed", "failed"} =>
                  processing_jobs'[job_id].progress >= processing_jobs[job_id].progress]_vars

\* both workers have ended, one after a step that raised and one after it
\* completed its job
C30_Witness ==
    /\ DOMAIN threads = JobIds
    /\ \A job_id \in JobIds : threads[job_id].pc = "done"
    /\ \E job_id \in JobIds : processing_jobs[job_id].status = "failed" /\ processing_jobs[job_id].progress = 30
    /\ \E job_id \in JobIds : processing_jobs[job_id].status = "completed" /\ processing_jobs[job_id].progress = 100

====
